---- MODULE Spec2Model ----
(***************************************************************************)
(* Model of qtum_electrum/network.py: the Network object (connection and   *)
(* header-chain reconciliation engine, request/subscription router).       *)
(*                                                                         *)
(* The Network object is a record n; every method of the class is an       *)
(* operator from the record (and the method's arguments) to the record     *)
(* after the call, so that a method calling another is operator            *)
(* application.  The actions at the end apply one handler of the worker    *)
(* loop, or one entry point of another thread, to the current state.       *)
(* random.choice is resolved by a priority order `ord` over the servers    *)
(* that the action draws with \E.                                          *)
(***************************************************************************)
EXTENDS Integers, Sequences, FiniteSets, TLC

VARIABLES
    net,        \* the Network object and the Interface objects it made
    srv         \* the remote servers: branch served, tip height, fork heights

vars == <<net, srv>>

(***************************************************************************)
(* Bounds of the model.                                                    *)
(***************************************************************************)
MaxHeight == 4      \* highest block height any server reaches (Spec)
MaxMsgId == 40      \* message ids handed out before the model stops queueing
MaxSends == 2       \* client send() calls per behaviour
MaxSpawn == 4       \* Connection threads started per behaviour
ForkHeight == 2     \* height at which the branches y and w leave x (Spec)

MaxPush == 1        \* subscription pushes per behaviour

Servers == {"s1", "s2"}
\* the callback of the first client, of the second client
Callbacks == [j \in 1..MaxSends |-> "cb" \o ToString(j)]
\* what the clients send: (method, params)
Messages ==
    {<<"blockchain.scripthash.subscribe", <<"h1">>>>,
     <<"blockchain.scripthash.get_history", <<"h1">>>>,
     <<"blockchain.contract.event.subscribe", <<"a1", "c1", "t1">>>>}
NoServer == "none"
None == 0 - 9       \* Python None in an integer-valued field
NoChain == 0 - 8    \* Python None / False where a Blockchain is expected

(***************************************************************************)
(* Block headers.  A header is <<height, id>>; id stands for its hash.     *)
(* The servers serve four branches: "x" (the honest chain), "y" and "w"    *)
(* (two forks of x, diverging at srv.fork_y and srv.fork_w), "v" (a fork   *)
(* of y, diverging at srv.fork_v > srv.fork_y), and "z", which disagrees   *)
(* with x from the genesis block on.  A server whose branch is "down" is   *)
(* not reachable.                                                          *)
(***************************************************************************)
Branches == {"x", "y", "w", "v", "z"}
GENESIS == "x"
NoHeader == <<None, "none">>

\* id of the header at height h on branch br
Tag(br, h) ==
    CASE br = "y" -> IF h < srv.fork_y THEN "x" ELSE "y"
      [] br = "w" -> IF h < srv.fork_w THEN "x" ELSE "w"
      [] br = "v" -> IF h < srv.fork_y THEN "x"
                     ELSE IF h < srv.fork_v THEN "y" ELSE "v"
      [] OTHER -> br

\* prev_block_hash field of the header with id `id` at height h
PrevOf(h, id) ==
    IF h = 0 THEN "none"
    ELSE CASE id = "y" -> IF h = srv.fork_y THEN "x" ELSE "y"
           [] id = "w" -> IF h = srv.fork_w THEN "x" ELSE "w"
           [] id = "v" -> IF h = srv.fork_v THEN "y" ELSE "v"
           [] OTHER -> id

ServerHeader(s, h) == <<h, Tag(srv.branch[s], h)>>

(***************************************************************************)
(* blockchain.py (the header-chain store; a collaborator of network.py).   *)
(* A chain is [forkpoint, parent, hdrs, catch_up]: hdrs[i] is the id of    *)
(* the header stored at height forkpoint + i - 1.                          *)
(***************************************************************************)
Chain_size(b) == Len(b.hdrs)

Chain_height(b) == b.forkpoint + Chain_size(b) - 1

RECURSIVE Chain_get_hash(_, _, _)
\* id of the header chain k holds at height h ("none" when it holds none);
\* heights below the fork point are read from the parent chain
Chain_get_hash(chains, k, h) ==
    LET b == chains[k] IN
    IF h < 0 THEN "none"
    ELSE IF h < b.forkpoint
         THEN IF b.parent = NoChain \/ b.parent \notin DOMAIN chains \/ b.parent = k
              THEN "none"
              ELSE Chain_get_hash(chains, b.parent, h)
    ELSE IF h > Chain_height(b) THEN "none"
    ELSE b.hdrs[h - b.forkpoint + 1]

Chain_check_header(chains, k, header) ==
    /\ header # NoHeader
    /\ header[2] = Chain_get_hash(chains, k, header[1])

Chain_can_connect(chains, k, header, check_height) ==
    /\ header # NoHeader
    /\ (check_height => Chain_height(chains[k]) = header[1] - 1)
    /\ IF header[1] = 0
       THEN header[2] = GENESIS
       ELSE LET prev == Chain_get_hash(chains, k, header[1] - 1) IN
            prev # "none" /\ prev = PrevOf(header[1], header[2])

\* first key of `order` (the chain dict in insertion order) whose chain
\* satisfies P, or NoChain
FirstChain(order, P(_)) ==
    LET I == {i \in 1..Len(order) : P(order[i])} IN
    IF I = {} THEN NoChain
    ELSE order[CHOOSE i \in I : \A j \in I : i <= j]

\* blockchain.check_header(header): the first chain that holds the header
check_header(n, header) ==
    LET P(k) == Chain_check_header(n.blockchains, k, header) IN
    FirstChain(n.chain_order, P)

\* blockchain.can_connect(header): the first chain whose tip the header extends
can_connect(n, header) ==
    LET P(k) == Chain_can_connect(n.blockchains, k, header, TRUE) IN
    FirstChain(n.chain_order, P)

\* Blockchain.save_header: append at the tip (the caller checks the
\* method's assertion delta == size with Chain_can_save)
Chain_can_save(b, header) == header[1] - b.forkpoint = Chain_size(b)

Chain_save_header(b, header) == [b EXCEPT !.hdrs = Append(@, header[2])]

\* Blockchain.fork(parent, header): a new chain starting with header
Chain_fork(parentKey, header) ==
    [forkpoint |-> header[1], parent |-> parentKey,
     hdrs |-> <<header[2]>>, catch_up |-> NoServer, valid |-> TRUE]

\* Blockchain.write(b'', 0): truncate the chain's file
Chain_truncate(b) == [b EXCEPT !.hdrs = <<>>]

(***************************************************************************)
(* Interface objects.  An object is named <<server, g>>; NoIface is None.  *)
(* `unanswered` is the Interface's own queue of requests sent and not yet  *)
(* answered, in the order they were queued.                                *)
(***************************************************************************)
NoIface == <<NoServer, 0>>

Interface_new(server) ==
    [server |-> server, blockchain |-> NoChain, tip_header |-> NoHeader,
     tip |-> 0, mode |-> "default", request |-> None, server_version |-> <<>>,
     good |-> None, bad |-> None, bad_header |-> NoHeader,
     unanswered |-> <<>>, closed |-> FALSE]

\* a name for a new Interface object of `server` that no live reference uses
FreshIface(n, server) ==
    CHOOSE o \in {server} \X (0..2) : o \notin DOMAIN n.objs

\* Interface.queue_request
Interface_queue_request(n, o, method, params, message_id) ==
    [n EXCEPT !.objs[o].unanswered = Append(@, <<method, params, message_id>>)]

\* Interface.close
Interface_close(n, o) == [n EXCEPT !.objs[o].closed = TRUE]

\* F applied to the value v, computed once (an assignment to a local name)
Bind(v, F(_)) == CHOOSE r \in {F(x) : x \in {v}} : TRUE

\* an exception that nothing catches ends the worker thread
Raise(n, what) == IF n.crashed = "" THEN [n EXCEPT !.crashed = what] ELSE n

\* a callback called with a response
Deliver(n, callback, response) ==
    [n EXCEPT !.log = Append(@, <<callback, response>>)]

\* random.choice(S), resolved by the priority order ord
Pick(S, ord) ==
    LET I == {i \in 1..Len(ord) : ord[i] \in S} IN
    ord[CHOOSE i \in I : \A j \in I : i <= j]

RECURSIVE SeqOf(_)
\* the elements of a set in the order an iteration visits them
SeqOf(S) ==
    IF S = {} THEN <<>>
    ELSE LET x == CHOOSE y \in S : TRUE IN <<x>> \o SeqOf(S \ {x})

(***************************************************************************)
(* Network: construction.                                                  *)
(***************************************************************************)
num_server == 10
FEE_TARGETS == <<25, 10, 5, 2>>

InitNet(chains, order, default_server, auto_connect) ==
    [blockchains |-> chains, chain_order |-> order, blockchain_index |-> 0,
     default_server |-> default_server, auto_connect |-> auto_connect,
     interface |-> NoIface, interfaces |-> <<>>, objs |-> <<>>,
     connecting |-> {}, disconnected_servers |-> {}, socket_queue |-> <<>>,
     conn_threads |-> {}, connection_status |-> "disconnected",
     requested_chunks |-> {}, message_id |-> 0,
     pending_sends |-> <<>>, unanswered_requests |-> <<>>,
     subscriptions |-> <<>>, sub_cache |-> <<>>,
     subscribed_addresses |-> {}, subscribed_tokens |-> {},
     crashed |-> "", log |-> <<>>, sends |-> 0, fired |-> <<>>, spawned |-> 0,
     num_server |-> num_server,
     interface_lock |-> "none", event_lock |-> "none", pending_events |-> {},
     at |-> [worker |-> "run", processor |-> "sleep", closing |-> NoIface]]

(***************************************************************************)
(* Network: requests, interfaces, switching.                               *)
(***************************************************************************)
_set_status(n, status) == [n EXCEPT !.connection_status = status]

is_connected(n) == n.interface # NoIface

is_connecting(n) == n.connection_status = "connecting"

\* queue_request(method, params, interface=None); the id it returns is the
\* value of n.message_id before the call
\* queue_request that does not advance the counter
queue_request_same_id(n, method, params, o) ==
    LET target == IF o = NoIface THEN n.interface ELSE o IN
    IF target = NoIface THEN n
    ELSE Interface_queue_request(n, target, method, params, n.message_id)

queue_request(n, method, params, o) ==
    LET target == IF o = NoIface THEN n.interface ELSE o IN
    IF target = NoIface THEN n
    ELSE Interface_queue_request([n EXCEPT !.message_id = @ + 1],
                                 target, method, params, n.message_id)

RECURSIVE queue_all(_, _, _)
\* queue_request(method, [p]) for every p of the sequence ps
queue_all(n, method, ps) ==
    IF ps = <<>> THEN n
    ELSE queue_all(Bind(n, LAMBDA nq :
                        queue_request(nq, method, Head(ps), NoIface)), method, Tail(ps))

RECURSIVE resend_unanswered(_, _)
\* send_subscriptions, lines 386-388: requests is a sequence of requests
resend_unanswered(n, requests) ==
    IF requests = <<>> THEN n
    ELSE LET message_id == n.message_id
             n1 == Bind(n, LAMBDA nq :
                     queue_request(nq, Head(requests)[1], Head(requests)[2], NoIface))
         IN Bind([n1 EXCEPT !.unanswered_requests =
                     [i \in DOMAIN @ \cup {message_id} |->
                         IF i = message_id THEN Head(requests) ELSE @[i]]],
                 LAMBDA m : resend_unanswered(m, Tail(requests)))

\* the values of the unanswered-request table in insertion order
RequestValues(n) ==
    LET ids == DOMAIN n.unanswered_requests
        RECURSIVE Asc(_)
        Asc(S) == IF S = {} THEN <<>>
                  ELSE LET m == CHOOSE i \in S : \A j \in S : i <= j
                       IN <<n.unanswered_requests[m]>> \o Asc(S \ {m})
    IN Asc(ids)

send_subscriptions(n) ==
    IF n.interface = NoIface THEN Raise(n, "send_subscriptions: assert self.interface")
    ELSE
    LET n1 == [n EXCEPT !.sub_cache = <<>>, !.unanswered_requests = <<>>]
        n2 == resend_unanswered(n1, RequestValues(n))
        n3 == Bind(n2, LAMBDA nq : queue_request(nq, "server.banner", <<>>, NoIface))
        n4 == queue_all(n3, "blockchain.estimatefee",
                        [i \in DOMAIN FEE_TARGETS |-> <<FEE_TARGETS[i]>>])
        n5 == Bind(n4, LAMBDA nq :
                   queue_request(nq, "blockchain.relayfee", <<>>, NoIface))
        n6 == queue_all(n5, "blockchain.scripthash.subscribe",
                        [i \in DOMAIN SeqOf(n.subscribed_addresses) |->
                            <<SeqOf(n.subscribed_addresses)[i]>>])
    IN queue_all(n6, "blockchain.contract.event.subscribe",
                 SeqOf(n.subscribed_tokens))

start_interface(n, server) ==
    IF server \notin DOMAIN n.interfaces /\ server \notin n.connecting
    THEN LET n1 == IF server = n.default_server
                   THEN _set_status(n, "connecting") ELSE n
         IN [n1 EXCEPT !.connecting = @ \cup {server},
                       !.conn_threads = @ \cup {server},
                       !.spawned = @ + 1]
    ELSE n

\* pick_random_server(hostmap, protocol, exclude_set): None is NoServer
pick_random_server(exclude_set, ord) ==
    IF Servers \ exclude_set = {} THEN NoServer
    ELSE Pick(Servers \ exclude_set, ord)

\* start_random_interface that forgets the servers seen down
start_random_interface_any(n, ord) ==
    LET exclude_set == DOMAIN n.interfaces
        server == pick_random_server(exclude_set, ord)
    IN IF server # NoServer THEN start_interface(n, server) ELSE n

\* start_random_interface that may pick a connected server and starts the
\* attempt without start_interface's test
start_random_interface_unguarded(n, ord) ==
    LET exclude_set == n.disconnected_servers
        server == pick_random_server(exclude_set, ord)
    IN IF server # NoServer
       THEN [n EXCEPT !.connecting = @ \cup {server},
                      !.conn_threads = @ \cup {server},
                      !.spawned = @ + 1]
       ELSE n

start_random_interface(n, ord) ==
    LET exclude_set == n.disconnected_servers \cup DOMAIN n.interfaces
        server == pick_random_server(exclude_set, ord)
    IN IF server # NoServer THEN start_interface(n, server) ELSE n

\* close_interface that leaves self.interface as it is
close_interface_keeps_active(n, o) ==
    IF o = NoIface THEN n
    ELSE LET server == n.objs[o].server
             n1 == IF server \in DOMAIN n.interfaces
                   THEN [n EXCEPT !.interfaces =
                            [s \in DOMAIN @ \ {server} |-> @[s]]]
                   ELSE n
         IN Interface_close(n1, o)

close_interface(n, o) ==
    IF o = NoIface THEN n
    ELSE LET server == n.objs[o].server
             n1 == IF server \in DOMAIN n.interfaces
                   THEN [n EXCEPT !.interfaces =
                            [s \in DOMAIN @ \ {server} |-> @[s]]]
                   ELSE n
             n2 == IF server = n.default_server
                   THEN [n1 EXCEPT !.interface = NoIface] ELSE n1
         IN Interface_close(n2, o)

\* connection_down that releases the catch_up marker of every chain
connection_down_all_markers(n, server) ==
    LET n1 == [n EXCEPT !.disconnected_servers = @ \cup {server}]
        n2 == IF server = n.default_server
              THEN _set_status(n1, "disconnected") ELSE n1
        n3 == IF server \in DOMAIN n2.interfaces
              THEN Bind(n2, LAMBDA nq :
                        close_interface(nq, n2.interfaces[server])) ELSE n2
    IN [n3 EXCEPT !.blockchains =
           [k \in DOMAIN @ |-> [@[k] EXCEPT !.catch_up = NoServer]]]

connection_down(n, server) ==
    LET n1 == [n EXCEPT !.disconnected_servers = @ \cup {server}]
        n2 == IF server = n.default_server
              THEN _set_status(n1, "disconnected") ELSE n1
        n3 == IF server \in DOMAIN n2.interfaces
              THEN Bind(n2, LAMBDA nq :
                        close_interface(nq, n2.interfaces[server])) ELSE n2
    IN [n3 EXCEPT !.blockchains =
           [k \in DOMAIN @ |->
               IF @[k].catch_up = server
               THEN [@[k] EXCEPT !.catch_up = NoServer] ELSE @[k]]]

switch_to_interface(n, server) ==
    LET n0 == [n EXCEPT !.default_server = server] IN
    IF server \notin DOMAIN n0.interfaces
    THEN Bind([n0 EXCEPT !.interface = NoIface], LAMBDA nq :
              start_interface(nq, server))
    ELSE
    LET i == n0.interfaces[server] IN
    IF n0.interface = i THEN n0
    ELSE
    LET n1 == IF n0.interface # NoIface
              THEN LET old_server == n0.objs[n0.interface].server
                   IN Bind(Bind(n0, LAMBDA nq :
                                close_interface(nq, n0.interface)), LAMBDA c :
                      IF old_server # server
                         /\ Cardinality(DOMAIN c.interfaces) <= c.num_server
                      THEN start_interface(c, old_server) ELSE c)
              ELSE n0
        n2 == Bind([n1 EXCEPT !.interface = i], LAMBDA nq : send_subscriptions(nq))
    IN Bind(n2, LAMBDA m :
           IF m.crashed # "" THEN m ELSE _set_status(m, "connected"))

get_interfaces(n) == DOMAIN n.interfaces

switch_to_random_interface(n, ord) ==
    LET servers == get_interfaces(n) \ {n.default_server} IN
    IF servers # {} THEN switch_to_interface(n, Pick(servers, ord)) ELSE n

(***************************************************************************)
(* Network: the followed chain and the lagging check.                      *)
(***************************************************************************)
CHUNK_SIZE == 1024
CHUNK_GAP == 50

Chain_read_header(chains, k, h) ==
    IF Chain_get_hash(chains, k, h) = "none" THEN NoHeader
    ELSE <<h, Chain_get_hash(chains, k, h)>>

\* Blockchain.is_valid: what the store says of the chain's file
Chain_is_valid(chains, k) == chains[k].valid

\* blockchain(): updates blockchain_index from the active interface;
\* the chain returned is n.blockchains[n.blockchain_index] afterwards
blockchain(n) ==
    LET n1 == IF n.interface # NoIface /\ n.objs[n.interface].blockchain # NoChain
              THEN [n EXCEPT !.blockchain_index = n.objs[n.interface].blockchain]
              ELSE n
    IN IF n1.blockchain_index \in DOMAIN n1.blockchains THEN n1
       ELSE Raise(n1, "blockchain: KeyError")

get_local_height(n) == Chain_height(n.blockchains[n.blockchain_index])

get_server_height(n) ==
    IF n.interface # NoIface THEN n.objs[n.interface].tip ELSE 0

RECURSIVE close_following(_, _, _)
\* server_is_lagging, lines 343-346: close the interfaces on chain k
close_following(n, servers, k) ==
    IF servers = <<>> THEN n
    ELSE LET server == Head(servers)
             n1 == IF server \in DOMAIN n.interfaces
                      /\ n.objs[n.interfaces[server]].blockchain = k
                   THEN Bind(n, LAMBDA nq :
                             close_interface(nq, n.interfaces[server])) ELSE n
         IN Bind(n1, LAMBDA m : close_following(m, Tail(servers), k))

RECURSIVE drop_invalid(_, _)
\* server_is_lagging, lines 341-347
drop_invalid(n, keys) ==
    IF keys = <<>> THEN n
    ELSE LET k == Head(keys)
             n1 == IF ~Chain_is_valid(n.blockchains, k)
                   THEN LET c == close_following(n, SeqOf(DOMAIN n.interfaces), k)
                        IN [c EXCEPT !.blockchains =
                                [j \in DOMAIN @ \ {k} |-> @[j]],
                             !.chain_order = SelectSeq(@, LAMBDA j : j # k)]
                   ELSE n
         IN Bind(n1, LAMBDA m : drop_invalid(m, Tail(keys)))

\* server_is_lagging(): [n |-> the state after the call, result |-> its value]
server_is_lagging(n) ==
    LET sh == get_server_height(n) IN
    IF sh = 0 THEN [n |-> n, result |-> TRUE]
    ELSE Bind(blockchain(n), LAMBDA n1 :
         IF n1.crashed # "" THEN [n |-> n1, result |-> FALSE]
         ELSE LET lh == get_local_height(n1)
                  result == (lh - sh) > 1
              IN [n |-> IF result THEN drop_invalid(n1, n1.chain_order) ELSE n1,
                  result |-> result])

switch_lagging_interface(n, ord) ==
    IF ~n.auto_connect THEN n
    ELSE Bind(server_is_lagging(n), LAMBDA lag :
         IF lag.n.crashed # "" \/ ~lag.result THEN lag.n
         ELSE Bind(blockchain(lag.n), LAMBDA n1 :
              IF n1.crashed # "" THEN n1
              ELSE LET best_header == Chain_read_header(n1.blockchains,
                                          n1.blockchain_index, get_local_height(n1))
                       filtered == {s \in DOMAIN n1.interfaces :
                                       n1.objs[n1.interfaces[s]].tip_header = best_header}
                   IN IF filtered # {}
                      THEN switch_to_interface(n1, Pick(filtered, ord))
                      ELSE n1))

\* set_parameters(host, port, protocol, proxy, auto_connect) with the proxy
\* and the protocol in use
set_parameters(n, server, auto_connect, ord) ==
    LET n1 == [n EXCEPT !.auto_connect = auto_connect] IN
    IF n1.default_server # server
    THEN Bind(n1, LAMBDA nq : switch_to_interface(nq, server))
    ELSE Bind(n1, LAMBDA nq : switch_lagging_interface(nq, ord))

\* follow_chain(index); ord resolves which interface the loop meets first
follow_chain(n, index, ord) ==
    IF index \notin DOMAIN n.blockchains THEN n
    ELSE LET n1 == [n EXCEPT !.blockchain_index = index]
             on == {s \in DOMAIN n1.interfaces :
                       n1.objs[n1.interfaces[s]].blockchain = index}
             n2 == IF on # {}
                   THEN Bind(n1, LAMBDA nq : switch_to_interface(nq, Pick(on, ord)))
                   ELSE n1
         IN Bind(n2, LAMBDA m :
                IF m.crashed # "" \/ m.interface = NoIface THEN m
                ELSE set_parameters(m, m.objs[m.interface].server,
                                    m.auto_connect, ord))

(***************************************************************************)
(* Network: the header-sync state machine.                                 *)
(***************************************************************************)
\* request_header that forgets which height it asked for
request_header_forgets(n, o, height) ==
    queue_request(n, "blockchain.block.header", <<height>>, o)

request_header(n, o, height) ==
    LET n1 == queue_request(n, "blockchain.block.header", <<height>>, o)
    IN [n1 EXCEPT !.objs[o].request = height]

\* request_chunk that does not record the chunk it asked for
request_chunk_unrecorded(n, o, index) ==
    IF index \in n.requested_chunks THEN n
    ELSE queue_request(n, "blockchain.block.headers",
                       <<index * CHUNK_SIZE, CHUNK_SIZE>>, o)

request_chunk(n, o, index) ==
    IF index \in n.requested_chunks THEN n
    ELSE LET n1 == queue_request(n, "blockchain.block.headers",
                                 <<index * CHUNK_SIZE, CHUNK_SIZE>>, o)
         IN [n1 EXCEPT !.requested_chunks = @ \cup {index}]

Max(S) == CHOOSE x \in S : \A y \in S : y <= x

Min2(a, b) == IF a < b THEN a ELSE b

\* the chain `k` of n with header saved at its tip
save_header(n, k, header) ==
    IF Chain_can_save(n.blockchains[k], header)
    THEN [n EXCEPT !.blockchains[k] = Chain_save_header(@, header)]
    ELSE Raise(n, "save_header: assert delta == size")

MalformedTip == <<None, "malformed">>

\* on_notify_header without the test of the mode
on_notify_header_any_mode(n, o, header, ord) ==
    IF header = MalformedTip THEN connection_down(n, n.objs[o].server)
    ELSE
    LET height == header[1] IN
    IF height = 0 THEN n
    ELSE
    LET n1 == [n EXCEPT !.objs[o].tip_header = header, !.objs[o].tip = height] IN
    LET b == check_header(n1, header) IN
    IF b # NoChain
    THEN Bind([n1 EXCEPT !.objs[o].blockchain = b], LAMBDA nq :
              switch_lagging_interface(nq, ord))
    ELSE
    LET c == can_connect(n1, header) IN
    IF c # NoChain
    THEN LET n2 == save_header([n1 EXCEPT !.objs[o].blockchain = c], c, header)
         IN Bind(n2, LAMBDA m :
                IF m.crashed # "" THEN m
                ELSE switch_lagging_interface(m, ord))
    ELSE
    LET tip == Max({Chain_height(n1.blockchains[k]) : k \in DOMAIN n1.blockchains}) IN
    IF tip >= 0
    THEN Bind([n1 EXCEPT !.objs[o].mode = "backward", !.objs[o].bad = height,
                         !.objs[o].bad_header = header],
              LAMBDA nq : request_header(nq, o, Min2(tip, height - 1)))
    ELSE IF n1.blockchains[0].catch_up = NoServer
         THEN Bind([n1 EXCEPT !.blockchains[0].catch_up = n1.objs[o].server,
                              !.objs[o].mode = "catch_up",
                              !.objs[o].blockchain = 0],
                   LAMBDA nq : request_header(nq, o, 0))
         ELSE n1

on_notify_header(n, o, header, ord) ==
    IF header = MalformedTip THEN connection_down(n, n.objs[o].server)
    ELSE
    LET height == header[1] IN
    IF height = 0 THEN n
    ELSE
    LET n1 == [n EXCEPT !.objs[o].tip_header = header, !.objs[o].tip = height] IN
    IF n1.objs[o].mode # "default" THEN n1
    ELSE
    LET b == check_header(n1, header) IN
    IF b # NoChain
    THEN Bind([n1 EXCEPT !.objs[o].blockchain = b], LAMBDA nq :
              switch_lagging_interface(nq, ord))
    ELSE
    LET c == can_connect(n1, header) IN
    IF c # NoChain
    THEN LET n2 == save_header([n1 EXCEPT !.objs[o].blockchain = c], c, header)
         IN Bind(n2, LAMBDA m :
                IF m.crashed # "" THEN m
                ELSE switch_lagging_interface(m, ord))
    ELSE
    LET tip == Max({Chain_height(n1.blockchains[k]) : k \in DOMAIN n1.blockchains}) IN
    IF tip >= 0
    THEN Bind([n1 EXCEPT !.objs[o].mode = "backward", !.objs[o].bad = height,
                         !.objs[o].bad_header = header],
              LAMBDA nq : request_header(nq, o, Min2(tip, height - 1)))
    ELSE IF n1.blockchains[0].catch_up = NoServer
         THEN Bind([n1 EXCEPT !.blockchains[0].catch_up = n1.objs[o].server,
                              !.objs[o].mode = "catch_up",
                              !.objs[o].blockchain = 0],
                   LAMBDA nq : request_header(nq, o, 0))
         ELSE n1

\* on_get_header, mode backward, probing back without doubling the step
on_get_header_backward_same_step(n, o, header) ==
    LET height == header[1]
        server == n.objs[o].server
        chain == check_header(n, header)
        cc == can_connect(n, header)
    IN IF cc # NoChain /\ n.blockchains[cc].catch_up = NoServer
       THEN LET n1 == save_header([n EXCEPT !.objs[o].mode = "catch_up",
                                            !.objs[o].blockchain = cc], cc, header)
            IN Bind(n1, LAMBDA m :
                   [n |-> IF m.crashed # "" THEN m
                          ELSE [m EXCEPT !.blockchains[cc].catch_up = server],
                    next_height |-> height + 1])
       ELSE IF chain # NoChain
       THEN [n |-> [n EXCEPT !.objs[o].mode = "binary",
                             !.objs[o].blockchain = chain,
                             !.objs[o].good = height],
             next_height |-> (n.objs[o].bad + height) \div 2]
       ELSE IF height = 0
       THEN [n |-> connection_down(n, server), next_height |-> None]
       ELSE LET delta == n.objs[o].tip - height
                cand == n.objs[o].tip - delta
            IN [n |-> [n EXCEPT !.objs[o].bad = height,
                                !.objs[o].bad_header = header],
                next_height |-> IF cand > 0 THEN cand ELSE 0]

\* on_get_header, mode backward (lines 951-974): [n, next_height]
on_get_header_backward(n, o, header) ==
    LET height == header[1]
        server == n.objs[o].server
        chain == check_header(n, header)
        cc == can_connect(n, header)
    IN IF cc # NoChain /\ n.blockchains[cc].catch_up = NoServer
       THEN LET n1 == save_header([n EXCEPT !.objs[o].mode = "catch_up",
                                            !.objs[o].blockchain = cc], cc, header)
            IN Bind(n1, LAMBDA m :
                   [n |-> IF m.crashed # "" THEN m
                          ELSE [m EXCEPT !.blockchains[cc].catch_up = server],
                    next_height |-> height + 1])
       ELSE IF chain # NoChain
       THEN [n |-> [n EXCEPT !.objs[o].mode = "binary",
                             !.objs[o].blockchain = chain,
                             !.objs[o].good = height],
             next_height |-> (n.objs[o].bad + height) \div 2]
       ELSE IF height = 0
       THEN [n |-> connection_down(n, server), next_height |-> None]
       ELSE LET delta == n.objs[o].tip - height
                cand == n.objs[o].tip - 2 * delta
            IN [n |-> [n EXCEPT !.objs[o].bad = height,
                                !.objs[o].bad_header = header],
                next_height |-> IF cand > 0 THEN cand ELSE 0]

\* on_get_header_forkpoint that ends the search in the reorg case
on_get_header_forkpoint_stops(n, o, header) ==
    LET i == n.objs[o]
        server == i.server
        bad == i.bad
    IN IF bad \in DOMAIN n.blockchains
       THEN IF Chain_check_header(n.blockchains, bad, i.bad_header)
            THEN [n |-> n, next_height |-> None]
            ELSE IF Chain_check_header(n.blockchains, n.blockchains[bad].parent, header)
            THEN [n |-> [n EXCEPT !.objs[o].blockchain = n.blockchains[bad].parent],
                  next_height |-> None]
            ELSE LET n1 == [n EXCEPT !.blockchains[bad] = Chain_truncate(@)]
                     n2 == save_header(n1, bad, i.bad_header)
                 IN Bind(n2, LAMBDA m :
                        [n |-> IF m.crashed # "" THEN m
                               ELSE [m EXCEPT !.objs[o].mode = "catch_up",
                                              !.objs[o].blockchain = bad,
                                              !.blockchains[bad].catch_up = server],
                         next_height |-> bad + 1])
       ELSE LET bh == Chain_height(n.blockchains[i.blockchain]) IN
            IF bh > i.good
            THEN IF ~Chain_check_header(n.blockchains, i.blockchain, i.bad_header)
                 THEN LET b == Chain_fork(i.blockchain, i.bad_header) IN
                      [n |-> [n EXCEPT
                                !.blockchains = [k \in DOMAIN @ \cup {bad} |->
                                    IF k = bad
                                    THEN [b EXCEPT !.catch_up = server]
                                    ELSE @[k]],
                                !.chain_order = Append(@, bad),
                                !.objs[o].blockchain = bad,
                                !.objs[o].mode = "catch_up"],
                       next_height |-> bad + 1]
                 ELSE [n |-> n, next_height |-> None]
            ELSE IF bh # i.good
            THEN [n |-> Raise(n, "on_get_header: assert bh == interface.good"),
                  next_height |-> None]
            ELSE IF n.blockchains[i.blockchain].catch_up = NoServer /\ bh < i.tip
            THEN [n |-> [n EXCEPT !.objs[o].mode = "catch_up",
                                  !.blockchains[i.blockchain].catch_up = server],
                  next_height |-> bh + 1]
            ELSE [n |-> n, next_height |-> None]

\* on_get_header's fork point step that takes a chain one header above
\* good for not higher
on_get_header_forkpoint_above(n, o, header) ==
    LET i == n.objs[o]
        server == i.server
        bad == i.bad
    IN IF bad \in DOMAIN n.blockchains
       THEN IF Chain_check_header(n.blockchains, bad, i.bad_header)
            THEN [n |-> n, next_height |-> None]
            ELSE IF Chain_check_header(n.blockchains, n.blockchains[bad].parent, header)
            THEN [n |-> [n EXCEPT !.objs[o].blockchain = n.blockchains[bad].parent],
                  next_height |-> bad]
            ELSE LET n1 == [n EXCEPT !.blockchains[bad] = Chain_truncate(@)]
                     n2 == save_header(n1, bad, i.bad_header)
                 IN Bind(n2, LAMBDA m :
                        [n |-> IF m.crashed # "" THEN m
                               ELSE [m EXCEPT !.objs[o].mode = "catch_up",
                                              !.objs[o].blockchain = bad,
                                              !.blockchains[bad].catch_up = server],
                         next_height |-> bad + 1])
       ELSE LET bh == Chain_height(n.blockchains[i.blockchain]) IN
            IF bh > i.good + 1
            THEN IF ~Chain_check_header(n.blockchains, i.blockchain, i.bad_header)
                 THEN LET b == Chain_fork(i.blockchain, i.bad_header) IN
                      [n |-> [n EXCEPT
                                !.blockchains = [k \in DOMAIN @ \cup {bad} |->
                                    IF k = bad
                                    THEN [b EXCEPT !.catch_up = server]
                                    ELSE @[k]],
                                !.chain_order = Append(@, bad),
                                !.objs[o].blockchain = bad,
                                !.objs[o].mode = "catch_up"],
                       next_height |-> bad + 1]
                 ELSE [n |-> n, next_height |-> None]
            ELSE IF bh # i.good
            THEN [n |-> Raise(n, "on_get_header: assert bh == interface.good"),
                  next_height |-> None]
            ELSE IF n.blockchains[i.blockchain].catch_up = NoServer /\ bh < i.tip
            THEN [n |-> [n EXCEPT !.objs[o].mode = "catch_up",
                                  !.blockchains[i.blockchain].catch_up = server],
                  next_height |-> bh + 1]
            ELSE [n |-> n, next_height |-> None]

\* on_get_header, mode binary, once bad = good + 1 and the header at bad
\* connects (lines 990-1028): [n, next_height]
on_get_header_forkpoint(n, o, header) ==
    LET i == n.objs[o]
        server == i.server
        bad == i.bad
    IN IF bad \in DOMAIN n.blockchains
       THEN IF Chain_check_header(n.blockchains, bad, i.bad_header)
            THEN [n |-> n, next_height |-> None]
            ELSE IF Chain_check_header(n.blockchains, n.blockchains[bad].parent, header)
            THEN [n |-> [n EXCEPT !.objs[o].blockchain = n.blockchains[bad].parent],
                  next_height |-> bad]
            ELSE LET n1 == [n EXCEPT !.blockchains[bad] = Chain_truncate(@)]
                     n2 == save_header(n1, bad, i.bad_header)
                 IN Bind(n2, LAMBDA m :
                        [n |-> IF m.crashed # "" THEN m
                               ELSE [m EXCEPT !.objs[o].mode = "catch_up",
                                              !.objs[o].blockchain = bad,
                                              !.blockchains[bad].catch_up = server],
                         next_height |-> bad + 1])
       ELSE LET bh == Chain_height(n.blockchains[i.blockchain]) IN
            IF bh > i.good
            THEN IF ~Chain_check_header(n.blockchains, i.blockchain, i.bad_header)
                 THEN LET b == Chain_fork(i.blockchain, i.bad_header) IN
                      [n |-> [n EXCEPT
                                !.blockchains = [k \in DOMAIN @ \cup {bad} |->
                                    IF k = bad
                                    THEN [b EXCEPT !.catch_up = server]
                                    ELSE @[k]],
                                !.chain_order = Append(@, bad),
                                !.objs[o].blockchain = bad,
                                !.objs[o].mode = "catch_up"],
                       next_height |-> bad + 1]
                 ELSE [n |-> n, next_height |-> None]
            ELSE IF bh # i.good
            THEN [n |-> Raise(n, "on_get_header: assert bh == interface.good"),
                  next_height |-> None]
            ELSE IF n.blockchains[i.blockchain].catch_up = NoServer /\ bh < i.tip
            THEN [n |-> [n EXCEPT !.objs[o].mode = "catch_up",
                                  !.blockchains[i.blockchain].catch_up = server],
                  next_height |-> bh + 1]
            ELSE [n |-> n, next_height |-> None]

\* on_get_header, mode binary (lines 976-1028): [n, next_height]
on_get_header_binary(n, o, header) ==
    LET height == header[1]
        chain == check_header(n, header)
        n1 == IF chain # NoChain
              THEN [n EXCEPT !.objs[o].good = height, !.objs[o].blockchain = chain]
              ELSE [n EXCEPT !.objs[o].bad = height, !.objs[o].bad_header = header]
        i == n1.objs[o]
    IN IF i.bad # i.good + 1
       THEN [n |-> n1, next_height |-> (i.bad + i.good) \div 2]
       ELSE IF ~Chain_can_connect(n1.blockchains, i.blockchain, i.bad_header, FALSE)
       THEN [n |-> Bind(n1, LAMBDA nq :
                        connection_down(nq, i.server)), next_height |-> None]
       ELSE on_get_header_forkpoint(n1, o, header)

\* on_get_header, mode catch_up, that keeps the marker at the end
on_get_header_catch_up_keeps_marker(n, o, header, ord) ==
    LET height == header[1]
        i == n.objs[o]
        r == IF Chain_can_connect(n.blockchains, i.blockchain, header, TRUE)
             THEN [n |-> save_header(n, i.blockchain, header),
                   next_height |-> IF height < i.tip THEN height + 1 ELSE None]
             ELSE [n |-> [n EXCEPT !.objs[o].mode = "backward",
                                   !.objs[o].bad = height,
                                   !.objs[o].bad_header = header],
                   next_height |-> height - 1]
    IN Bind(r, LAMBDA q :
           IF q.n.crashed = "" /\ q.next_height = None
           THEN [n |-> Bind(q.n,
                            LAMBDA nq : switch_lagging_interface(nq, ord)),
                 next_height |-> None]
           ELSE q)

\* on_get_header, mode catch_up (lines 1030-1048): [n, next_height]
on_get_header_catch_up(n, o, header, ord) ==
    LET height == header[1]
        i == n.objs[o]
        r == IF Chain_can_connect(n.blockchains, i.blockchain, header, TRUE)
             THEN [n |-> save_header(n, i.blockchain, header),
                   next_height |-> IF height < i.tip THEN height + 1 ELSE None]
             ELSE [n |-> [n EXCEPT !.objs[o].mode = "backward",
                                   !.objs[o].bad = height,
                                   !.objs[o].bad_header = header],
                   next_height |-> height - 1]
    IN Bind(r, LAMBDA q :
           IF q.n.crashed = "" /\ q.next_height = None
           THEN [n |-> Bind([q.n EXCEPT !.blockchains[i.blockchain].catch_up = NoServer],
                            LAMBDA nq : switch_lagging_interface(nq, ord)),
                 next_height |-> None]
           ELSE q)

\* on_get_header, lines 1052-1064: ask for the next header or chunk
on_get_header_next(n, o, next_height) ==
    LET r == IF next_height = None THEN [n |-> n, next_height |-> None]
             ELSE IF next_height < 0
             THEN [n |-> connection_down(n, n.objs[o].server), next_height |-> None]
             ELSE IF n.objs[o].mode = "catch_up"
                     /\ n.objs[o].tip > next_height + CHUNK_GAP
             THEN [n |-> request_chunk(n, o, next_height \div CHUNK_SIZE),
                   next_height |-> next_height]
             ELSE [n |-> request_header(n, o, next_height),
                   next_height |-> next_height]
    IN Bind(r, LAMBDA q :
           IF q.next_height = None
           THEN [q.n EXCEPT !.objs[o].mode = "default", !.objs[o].request = None]
           ELSE q.n)

\* on_get_header(interface, response); header is response['result']
on_get_header(n, o, header, ord) ==
    LET i == n.objs[o] IN
    IF header = NoHeader THEN connection_down(n, i.server)
    ELSE IF i.request # header[1] THEN connection_down(n, i.server)
    ELSE IF i.mode \notin {"backward", "binary", "catch_up"}
    THEN Raise(n, "on_get_header: Exception(interface.mode)")
    ELSE LET r == CASE i.mode = "backward" -> on_get_header_backward(n, o, header)
                    [] i.mode = "binary" -> on_get_header_binary(n, o, header)
                    [] i.mode = "catch_up" -> on_get_header_catch_up(n, o, header, ord)
         IN Bind(r, LAMBDA q :
                IF q.n.crashed # "" THEN q.n
                ELSE on_get_header_next(q.n, o, q.next_height))

(***************************************************************************)
(* Responses.  A response is [method, params, result, error, src]: result  *)
(* is <<>> for None and <<v>> for the value v, error is "none" for None;   *)
(* src names the reply (the server and the id answered, or the push).      *)
(***************************************************************************)
\* Blockchain.connect_chunk(index, hexdata): verify the headers' linkage
\* to the chain and to each other, then write them from the chunk's start
Chain_verify_chunk(chains, k, start, ids) ==
    \A j \in 1..Len(ids) :
        LET h == start + j - 1 IN
        IF h = 0 THEN ids[j] = GENESIS
        ELSE IF j = 1
             THEN /\ Chain_get_hash(chains, k, h - 1) # "none"
                  /\ Chain_get_hash(chains, k, h - 1) = PrevOf(h, ids[j])
             ELSE ids[j - 1] = PrevOf(h, ids[j])

Chain_save_chunk(b, start, ids) ==
    LET d == start - b.forkpoint
        chunk == IF d < 0 THEN SubSeq(ids, 1 - d, Len(ids)) ELSE ids
        keep == IF d < 0 THEN 0 ELSE d
    IN [b EXCEPT !.hdrs = SubSeq(@, 1, keep) \o chunk]

\* on_block_headers that accepts a chunk at any start height
on_block_headers_any_start(n, o, response, ord) ==
    LET i == n.objs[o]
        k == i.blockchain
    IN IF response.result = <<>> \/ response.params = <<>> \/ response.error # "none"
       THEN Bind(switch_to_random_interface(n, ord), LAMBDA n1 :
            IF n1.crashed # "" THEN n1
            ELSE IF response.error = "none"
            THEN Raise(n1, "on_block_headers: error.get on None")
            ELSE IF response.error # "-101" THEN n1
            ELSE IF k = NoChain
            THEN Raise(n1, "on_block_headers: blockchain is None")
            ELSE IF response.params = <<>>
                    \/ (response.params[1] \div CHUNK_SIZE) \notin n1.requested_chunks
            THEN Raise([n1 EXCEPT !.blockchains[k].catch_up = NoServer],
                       "on_block_headers: requested_chunks.remove")
            ELSE [n1 EXCEPT !.blockchains[k].catch_up = NoServer,
                            !.requested_chunks =
                                @ \ {response.params[1] \div CHUNK_SIZE}])
       ELSE
       LET height == response.params[1]
           index == height \div CHUNK_SIZE
       IN IF index \notin n.requested_chunks
          THEN n
          ELSE
          LET n1 == [n EXCEPT !.requested_chunks = @ \ {index}]
              hexdata == response.result[1]
          IN IF k = NoChain
             THEN Raise(n1, "on_block_headers: blockchain is None")
             ELSE IF ~Chain_verify_chunk(n1.blockchains, k, height, hexdata)
             THEN Bind(n1, LAMBDA nq : connection_down(nq, i.server))
             ELSE
             LET n2 == [n1 EXCEPT !.blockchains[k] =
                                      Chain_save_chunk(@, height, hexdata)]
             IN IF Chain_height(n2.blockchains[k]) < i.tip
                THEN Bind(n2, LAMBDA nq : request_chunk(nq, o, index + 1))
                ELSE [n2 EXCEPT !.objs[o].mode = "default",
                                !.blockchains[k].catch_up = NoServer]

on_block_headers(n, o, response, ord) ==
    LET i == n.objs[o]
        k == i.blockchain
    IN IF response.result = <<>> \/ response.params = <<>> \/ response.error # "none"
       THEN Bind(switch_to_random_interface(n, ord), LAMBDA n1 :
            IF n1.crashed # "" THEN n1
            ELSE IF response.error = "none"
            THEN Raise(n1, "on_block_headers: error.get on None")
            ELSE IF response.error # "-101" THEN n1
            ELSE IF k = NoChain
            THEN Raise(n1, "on_block_headers: blockchain is None")
            ELSE IF response.params = <<>>
                    \/ (response.params[1] \div CHUNK_SIZE) \notin n1.requested_chunks
            THEN Raise([n1 EXCEPT !.blockchains[k].catch_up = NoServer],
                       "on_block_headers: requested_chunks.remove")
            ELSE [n1 EXCEPT !.blockchains[k].catch_up = NoServer,
                            !.requested_chunks =
                                @ \ {response.params[1] \div CHUNK_SIZE}])
       ELSE
       LET height == response.params[1]
           index == height \div CHUNK_SIZE
       IN IF index * CHUNK_SIZE # height \/ index \notin n.requested_chunks
          THEN n
          ELSE
          LET n1 == [n EXCEPT !.requested_chunks = @ \ {index}]
              hexdata == response.result[1]
          IN IF k = NoChain
             THEN Raise(n1, "on_block_headers: blockchain is None")
             ELSE IF ~Chain_verify_chunk(n1.blockchains, k, height, hexdata)
             THEN Bind(n1, LAMBDA nq : connection_down(nq, i.server))
             ELSE
             LET n2 == [n1 EXCEPT !.blockchains[k] =
                                      Chain_save_chunk(@, height, hexdata)]
             IN IF Chain_height(n2.blockchains[k]) < i.tip
                THEN Bind(n2, LAMBDA nq : request_chunk(nq, o, index + 1))
                ELSE [n2 EXCEPT !.objs[o].mode = "default",
                                !.blockchains[k].catch_up = NoServer]

RECURSIVE call_all(_, _, _)
\* for callback in callbacks: callback(response)
call_all(n, callbacks, response) ==
    IF callbacks = <<>> THEN n
    ELSE call_all(Deliver(n, Head(callbacks), response), Tail(callbacks), response)

process_response(n, o, response, callbacks, ord) ==
    LET method == response.method
        ok == response.error = "none"
        server == n.objs[o].server
    IN IF method = "blockchain.headers.subscribe" /\ ~ok
       THEN connection_down(n, server)
       ELSE
       LET n1 == CASE method = "server.version" ->
                        [n EXCEPT !.objs[o].server_version = response.result]
                   [] method = "blockchain.headers.subscribe" ->
                        IF response.result = <<>>
                        THEN Raise(n, "on_notify_header: header_dict is None")
                        ELSE on_notify_header(n, o, response.result[1], ord)
                   [] method = "blockchain.block.headers" ->
                        on_block_headers(n, o, response, ord)
                   [] method = "blockchain.block.header" ->
                        IF ok /\ response.result # <<>>
                        THEN on_get_header(n, o, response.result[1], ord)
                        ELSE n
                   [] OTHER -> n
           passed == IF method = "blockchain.block.header"
                        /\ ok /\ response.result # <<>>
                     THEN [result |-> response.result]
                     ELSE response
       IN Bind(n1, LAMBDA m :
              IF m.crashed # "" THEN m ELSE call_all(m, callbacks, passed))

\* get_index(method, params): the string that keys subscriptions and cache
get_index(method, params) ==
    IF method = "blockchain.contract.event.subscribe"
    THEN method \o ":" \o ToString(params[1]) \o ":" \o ToString(params[2])
                \o ":" \o ToString(params[3])
    ELSE IF params # <<>> THEN method \o ":" \o ToString(params[1])
    ELSE method

endswith(method, suffix) ==
    /\ Len(method) >= Len(suffix)
    /\ SubSeq(method, Len(method) - Len(suffix) + 1, Len(method)) = suffix

(***************************************************************************)
(* Network: the request router.                                            *)
(* A request is <<method, params, message_id>>; an entry of the table      *)
(* unanswered_requests is <<method, params, callback, tag>>, where tag     *)
(* names the send() call and the message of it that made the entry.        *)
(* An item read from an interface is [kind, request, response] with kind   *)
(* "reply" (request is the request answered), "push" (no request) or       *)
(* "closed" (the empty response of a connection closed remotely).          *)
(***************************************************************************)
Put(f, k, v) == [x \in DOMAIN f \cup {k} |-> IF x = k THEN v ELSE f[x]]

\* a pop that leaves the entry in place
Drop_keeps(f, k) == f

Drop(f, k) == [x \in DOMAIN f \ {k} |-> f[x]]

Get(f, k, default) == IF k \in DOMAIN f THEN f[k] ELSE default

IsMember(x, seq) == \E j \in DOMAIN seq : seq[j] = x

\* process_responses, the body of its loop for one item:
\* [n |-> state after it, stop |-> the loop ends (return or break)]
process_responses_item(n, o, item, ord) ==
    IF item.kind = "closed"
    THEN [n |-> Bind(n, LAMBDA nq :
                     connection_down(nq, n.objs[o].server)), stop |-> TRUE]
    ELSE IF item.kind = "reply"
    THEN LET method == item.request[1]
             params == item.request[2]
             message_id == item.request[3]
             k == get_index(method, params)
             found == message_id \in DOMAIN n.unanswered_requests
             client_req == Get(n.unanswered_requests, message_id, <<>>)
             n1 == [n EXCEPT !.unanswered_requests = Drop(@, message_id)]
         IN IF found /\ o # n1.interface
            THEN [n |-> n1, stop |-> TRUE]
            ELSE
            LET callbacks == IF found THEN <<client_req[3]>>
                             ELSE Get(n1.subscriptions, k, <<>>)
                response == [item.response EXCEPT !.method = method,
                                                  !.params = params]
                n2 == IF method = "blockchain.scripthash.subscribe"
                      THEN [n1 EXCEPT !.subscribed_addresses = @ \cup {params[1]}]
                      ELSE IF method = "blockchain.contract.event.subscribe"
                      THEN [n1 EXCEPT !.subscribed_tokens = @ \cup {params}]
                      ELSE n1
                n3 == IF endswith(method, ".subscribe")
                      THEN [n2 EXCEPT !.sub_cache = Put(@, k, response)]
                      ELSE n2
                n4 == IF found
                      THEN [n3 EXCEPT !.fired = Put(@, client_req[4],
                                                    Get(@, client_req[4], 0) + 1)]
                      ELSE n3
            IN [n |-> Bind(n4, LAMBDA nq :
                           process_response(nq, o, response, callbacks, ord)),
                stop |-> FALSE]
    ELSE LET method == item.response.method
             params == item.response.params
             k == get_index(method, params)
             response ==
                 CASE method = "blockchain.headers.subscribe" ->
                          [item.response EXCEPT !.result = <<params[1]>>,
                                                !.params = <<>>]
                   [] method = "blockchain.scripthash.subscribe" ->
                          [item.response EXCEPT !.params = <<params[1]>>,
                                                !.result = <<params[2]>>]
                   [] method = "blockchain.contract.event.subscribe" ->
                          [item.response EXCEPT !.params = SubSeq(params, 1, 3),
                                                !.result = <<params[4]>>]
                   [] OTHER -> item.response
             callbacks == Get(n.subscriptions, k, <<>>)
             n1 == IF endswith(method, ".subscribe")
                   THEN [n EXCEPT !.sub_cache = Put(@, k, response)]
                   ELSE n
         IN [n |-> Bind(n1, LAMBDA nq :
                        process_response(nq, o, response, callbacks, ord)),
             stop |-> FALSE]

RECURSIVE process_responses_range(_, _, _, _, _, _)
\* the loop of process_responses over items[lo..hi], in order:
\* [n |-> state after them, stop |-> the loop has ended]
process_responses_range(n, o, items, lo, hi, ord) ==
    IF n.crashed # "" \/ lo > hi THEN [n |-> n, stop |-> n.crashed # ""]
    ELSE IF lo = hi
    THEN Bind(items[lo], LAMBDA item : process_responses_item(n, o, item, ord))
    ELSE LET mid == (lo + hi) \div 2 IN
         Bind(process_responses_range(n, o, items, lo, mid, ord), LAMBDA r :
              IF r.stop THEN r
              ELSE process_responses_range(r.n, o, items, mid + 1, hi, ord))

\* process_responses(interface): items is what interface.get_responses() gave
process_responses(n, o, items, ord) ==
    Bind(items, LAMBDA read :
        process_responses_range(n, o, read, 1, Len(read), ord).n)

\* send(messages, callback), called from any thread
send(n, messages, callback) ==
    [n EXCEPT !.pending_sends = Append(@, <<messages, callback, n.sends>>),
              !.sends = @ + 1]

\* process_pending_sends for one message, without the look in the cache
process_pending_sends_message_uncached(n, method, params, callback, tag) ==
    LET k == get_index(method, params)
        l == Get(n.subscriptions, k, <<>>)
        n1 == IF endswith(method, ".subscribe")
              THEN [n EXCEPT !.subscriptions =
                        Put(@, k, IF IsMember(callback, l) THEN l
                                  ELSE Append(l, callback))]
              ELSE n
        message_id == n1.message_id
        n2 == Bind(n1, LAMBDA nq : queue_request(nq, method, params, NoIface))
    IN [n2 EXCEPT !.unanswered_requests =
                      Put(@, message_id, <<method, params, callback, tag>>)]

\* process_pending_sends, lines 785-801, for one message of one send
process_pending_sends_message(n, method, params, callback, tag) ==
    LET sub == endswith(method, ".subscribe")
        k == get_index(method, params)
        l == Get(n.subscriptions, k, <<>>)
        n1 == IF sub
              THEN [n EXCEPT !.subscriptions =
                        Put(@, k, IF IsMember(callback, l) THEN l
                                  ELSE Append(l, callback))]
              ELSE n
        hit == sub /\ k \in DOMAIN n1.sub_cache
    IN IF hit /\ ~endswith(method, "contract.subscribe")
       THEN Deliver(n1, callback, n1.sub_cache[k])
       ELSE LET message_id == n1.message_id
                n2 == Bind(n1, LAMBDA nq : queue_request(nq, method, params, NoIface))
            IN [n2 EXCEPT !.unanswered_requests =
                              Put(@, message_id, <<method, params, callback, tag>>)]

RECURSIVE process_pending_sends_messages(_, _, _, _, _)
process_pending_sends_messages(n, messages, j, callback, sid) ==
    IF j > Len(messages) THEN n
    ELSE process_pending_sends_messages(
             process_pending_sends_message(n, messages[j][1], messages[j][2],
                                           callback, <<sid, j>>),
             messages, j + 1, callback, sid)

RECURSIVE process_pending_sends_loop(_, _)
process_pending_sends_loop(n, sends) ==
    IF sends = <<>> THEN n
    ELSE process_pending_sends_loop(
             process_pending_sends_messages(n, Head(sends)[1], 1,
                                            Head(sends)[2], Head(sends)[3]),
             Tail(sends))

process_pending_sends(n) ==
    IF n.interface = NoIface THEN n
    ELSE process_pending_sends_loop([n EXCEPT !.pending_sends = <<>>],
                                    n.pending_sends)

\* unsubscribe(callback)
unsubscribe(n, callback) ==
    [n EXCEPT !.subscriptions =
        [k \in DOMAIN @ |-> SelectSeq(@[k], LAMBDA c : c # callback)]]

(***************************************************************************)
(* Network: the worker's maintenance steps.                                *)
(***************************************************************************)
\* new_interface that subscribes to the headers before it asks the version
new_interface_subscribes_first(n, server) ==
    LET o == FreshIface(n, server)
        n1 == [n EXCEPT !.objs = Put(@, o, Interface_new(server)),
                        !.interfaces = Put(@, server, o)]
        n2 == Bind(n1, LAMBDA nq :
                   queue_request(nq, "blockchain.headers.subscribe", <<TRUE>>, o))
        n3 == Bind(n2, LAMBDA nq :
                   queue_request(nq, "server.version", <<"version", "protocol">>, o))
    IN Bind(n3, LAMBDA m :
           IF server = m.default_server
           THEN switch_to_interface(m, server) ELSE m)

new_interface(n, server) ==
    LET o == FreshIface(n, server)
        n1 == [n EXCEPT !.objs = Put(@, o, Interface_new(server)),
                        !.interfaces = Put(@, server, o)]
        n2 == Bind(n1, LAMBDA nq :
                   queue_request(nq, "server.version", <<"version", "protocol">>, o))
        n3 == Bind(n2, LAMBDA nq :
                   queue_request(nq, "blockchain.headers.subscribe", <<TRUE>>, o))
    IN Bind(n3, LAMBDA m :
           IF server = m.default_server
           THEN switch_to_interface(m, server) ELSE m)

RECURSIVE maintain_sockets_queue(_, _)
\* maintain_sockets, lines 847-854
maintain_sockets_queue(n, queue) ==
    IF queue = <<>> \/ n.crashed # "" THEN n
    ELSE LET server == Head(queue)[1]
             n1 == [n EXCEPT !.connecting = @ \ {server}]
             n2 == IF Head(queue)[2] THEN Bind(n1, LAMBDA nq :
                                               new_interface(nq, server))
                   ELSE Bind(n1, LAMBDA nq : connection_down(nq, server))
         IN Bind(n2, LAMBDA m : maintain_sockets_queue(m, Tail(queue)))

RECURSIVE maintain_sockets_stale(_, _, _, _)
\* maintain_sockets, lines 858-864: timed_out and ping are the interfaces
\* for which has_timed_out() and ping_required() hold
maintain_sockets_stale(n, interfaces, timed_out, ping) ==
    IF interfaces = <<>> THEN n
    ELSE LET o == Head(interfaces)
             n1 == IF o \in timed_out THEN Bind(n, LAMBDA nq :
                                                connection_down(nq, n.objs[o].server))
                   ELSE IF o \in ping
                   THEN Bind(n, LAMBDA nq : queue_request(nq, "server.ping", <<>>, o))
                   ELSE n
         IN Bind(n1, LAMBDA m :
                maintain_sockets_stale(m, Tail(interfaces), timed_out, ping))

\* maintain_sockets(): nodes_retry and server_retry say whether the retry
\* intervals NODES_RETRY_INTERVAL and SERVER_RETRY_INTERVAL have passed
maintain_sockets(n, timed_out, ping, nodes_retry, server_retry, ord) ==
    Bind(maintain_sockets_queue([n EXCEPT !.socket_queue = <<>>], n.socket_queue),
         LAMBDA n1 :
    LET live == SeqOf({n1.interfaces[s] : s \in DOMAIN n1.interfaces})
        n2 == maintain_sockets_stale(n1, live, timed_out, ping)
        n3 == Bind(n2, LAMBDA m :
                  IF Cardinality(DOMAIN m.interfaces) + Cardinality(m.connecting)
                        < m.num_server
                  THEN LET r == start_random_interface(m, ord) IN
                       IF nodes_retry THEN [r EXCEPT !.disconnected_servers = {}]
                       ELSE r
                  ELSE m)
    IN IF n1.crashed # "" THEN n1
       ELSE Bind(n3, LAMBDA m :
            IF is_connected(m) THEN m
            ELSE IF m.auto_connect
            THEN IF ~is_connecting(m)
                 THEN switch_to_random_interface(m, ord) ELSE m
            ELSE IF m.default_server \in m.disconnected_servers
            THEN IF server_retry
                 THEN [m EXCEPT !.disconnected_servers = @ \ {m.default_server}]
                 ELSE m
            ELSE switch_to_interface(m, m.default_server)))

RECURSIVE maintain_requests_loop(_, _, _)
maintain_requests_loop(n, interfaces, timed_out) ==
    IF interfaces = <<>> THEN n
    ELSE LET o == Head(interfaces)
             i == n.objs[o]
             n1 == IF i.request # None /\ i.request # 0 /\ o \in timed_out
                   THEN Bind(n, LAMBDA nq : connection_down(nq, i.server)) ELSE n
         IN Bind(n1, LAMBDA m :
                maintain_requests_loop(m, Tail(interfaces), timed_out))

\* maintain_requests(): timed_out are the interfaces whose request is older
\* than the request timeout
maintain_requests(n, timed_out) ==
    maintain_requests_loop(n, SeqOf({n.interfaces[s] : s \in DOMAIN n.interfaces}),
                           timed_out)

\* start_interfaces(): picked are the servers the random picks returned
start_interfaces(n, picked) ==
    LET RECURSIVE go(_, _)
        go(m, ss) == IF ss = <<>> THEN m ELSE go(Bind(m, LAMBDA nq :
                start_interface(nq, Head(ss))), Tail(ss))
    IN go(Bind(n, LAMBDA nq : start_interface(nq, n.default_server)), SeqOf(picked))

\* start_network()
start_network(n, picked) ==
    IF n.interface # NoIface \/ DOMAIN n.interfaces # {}
    THEN Raise(n, "start_network: assert not self.interface and not self.interfaces")
    ELSE IF n.connecting # {} \/ n.socket_queue # <<>>
    THEN Raise(n, "start_network: assert not self.connecting and self.socket_queue.empty()")
    ELSE start_interfaces([n EXCEPT !.disconnected_servers = {}], picked)

RECURSIVE close_interfaces(_, _)
\* for interface in list(self.interfaces.values()): close_interface(interface)
close_interfaces(n, interfaces) ==
    IF interfaces = <<>> THEN n
    ELSE close_interfaces(close_interface(n, Head(interfaces)), Tail(interfaces))

\* stop_network(): the pending Connection threads report to the queue that
\* is dropped
stop_network(n) ==
    LET n1 == close_interfaces(n, SeqOf({n.interfaces[s] : s \in DOMAIN n.interfaces}))
        n2 == IF n1.interface # NoIface
              THEN Bind(n1, LAMBDA nq : close_interface(nq, n1.interface))
              ELSE n1
    IN IF n2.interface # NoIface
       THEN Raise(n2, "stop_network: assert self.interface is None")
       ELSE IF DOMAIN n2.interfaces # {}
       THEN Raise(n2, "stop_network: assert not self.interfaces")
       ELSE [n2 EXCEPT !.connecting = {}, !.socket_queue = <<>>,
                       !.conn_threads = {}]

\* set_parameters() when the proxy or the protocol changes (lines 567-573)
set_parameters_restart(n, server, auto_connect, picked) ==
    Bind(stop_network([n EXCEPT !.auto_connect = auto_connect]), LAMBDA n1 :
         IF n1.crashed # "" THEN n1
         ELSE Bind([n1 EXCEPT !.default_server = server], LAMBDA nq :
                   start_network(nq, picked)))

(***************************************************************************)
(* The servers.  srv.branch[s] is the branch server s serves and           *)
(* srv.height[s] the height of its tip; a server answers a request from    *)
(* its branch.                                                             *)
(***************************************************************************)
\* the id of the transaction whose serialisation is raw
Txid(raw) == "id of " \o raw

ServerChunk(s, start, count) ==
    LET last == Min2(start + count - 1, srv.height[s]) IN
    [j \in 1..(last - start + 1) |-> Tag(srv.branch[s], start + j - 1)]

ServerReply(s, request) ==
    LET method == request[1]
        params == request[2]
        base == [method |-> "", params |-> <<>>, result |-> <<>>,
                 error |-> "none", src |-> <<s, request[3]>>]
    IN CASE method = "blockchain.block.header" ->
                IF params[1] <= srv.height[s]
                THEN [base EXCEPT !.result = <<ServerHeader(s, params[1])>>]
                ELSE [base EXCEPT !.error = "err"]
         [] method = "blockchain.block.headers" ->
                [base EXCEPT !.result = <<ServerChunk(s, params[1], params[2])>>]
         [] method = "blockchain.headers.subscribe" ->
                [base EXCEPT !.result = <<ServerHeader(s, srv.height[s])>>]
         [] method = "blockchain.transaction.broadcast" ->
                [base EXCEPT !.result = <<Txid(params[1])>>]
         [] OTHER -> [base EXCEPT !.result = <<"ok">>]

ServerPushTip(s, h) ==
    [method |-> "blockchain.headers.subscribe", params |-> <<ServerHeader(s, h)>>,
     result |-> <<>>, error |-> "none", src |-> <<s, None>>]

\* the priority orders a random choice is resolved by: every rotation of
\* the servers, so that each member of a set can be the one chosen
Orders ==
    LET base == SeqOf(Servers)
        N == Len(base)
    IN {[j \in 1..N |-> base[((j + r - 1) % N) + 1]] : r \in 0..(N - 1)}

\* the Interface objects the worker polls
Live(n) == {n.interfaces[s] : s \in DOMAIN n.interfaces}

\* objects no reference reaches are forgotten
Collect(n) ==
    [n EXCEPT !.objs = [o \in (Live(n) \cup {n.interface}) \ {NoIface} |-> @[o]]]

\* the Network object at the start of a step (nothing delivered yet)
Begin == [net EXCEPT !.log = <<>>]

\* a step ends in the state n, within the bounds of the model
Step(end) ==
    /\ net.crashed = ""
    /\ \E n \in {end} :
        /\ n.message_id <= MaxMsgId
        /\ n.spawned <= MaxSpawn
        /\ net' = Collect(n)

\* requests whose answer starts no step of the sync and reaches no callback
\* of the model's clients
Inert(request) ==
    request[1] \in {"server.version", "server.banner", "server.ping",
                    "blockchain.estimatefee", "blockchain.relayfee"}

\* what interface.get_responses() returns: the answers to the first
\* requests of the queue, up to and including the first one whose answer
\* the worker acts on
BatchOf(n, o) ==
    LET q == n.objs[o].unanswered
        I == {j \in DOMAIN q : ~Inert(q[j])}
        last == IF I = {} THEN Len(q) ELSE CHOOSE j \in I : \A m \in I : j <= m
    IN [j \in 1..last |->
           [kind |-> "reply", request |-> q[j],
            response |-> ServerReply(o[1], q[j])]]

Batch(o) == BatchOf(net, o)

\* the worker reads the answers BatchOf(n, o)
Answered(n, o, ord) ==
    LET items == BatchOf(n, o)
        n1 == [n EXCEPT !.objs[o].unanswered = SubSeq(@, Len(items) + 1, Len(@))]
    IN Bind(n1, LAMBDA nq : process_responses(nq, o, items, ord))

(***************************************************************************)
(* Actions.                                                                *)
(***************************************************************************)
\* a Connection thread ends with a socket: it puts (server, socket) in the
\* socket queue
ConnectionUp ==
    /\ \E s \in net.conn_threads :
        /\ srv.branch[s] # "down"
        /\ Step([Begin EXCEPT !.conn_threads = @ \ {s},
                              !.socket_queue = Append(@, <<s, TRUE>>)])
    /\ UNCHANGED srv

\* the Connection thread to a server that is down fails
ConnectionRefused ==
    /\ \E s \in net.conn_threads :
        /\ srv.branch[s] = "down"
        /\ Step([Begin EXCEPT !.conn_threads = @ \ {s},
                              !.socket_queue = Append(@, <<s, FALSE>>)])
    /\ UNCHANGED srv

\* a Connection thread fails: it puts (server, None) in the socket queue
ConnectionFailed ==
    /\ \E s \in net.conn_threads :
          Step([Begin EXCEPT !.conn_threads = @ \ {s},
                             !.socket_queue = Append(@, <<s, FALSE>>)])
    /\ UNCHANGED srv

\* the worker runs maintain_sockets(); no interface has timed out and no
\* retry interval has passed
MaintainSockets ==
    /\ \E ord \in Orders :
          Step(Bind(Begin, LAMBDA nq : maintain_sockets(nq, {}, {}, FALSE, FALSE, ord)))
    /\ net' # net
    /\ UNCHANGED srv

\* the worker runs maintain_sockets() when an interface has timed out or a
\* retry interval has passed
MaintainSocketsLate ==
    /\ \E timed_out \in SUBSET Live(net), nodes_retry, server_retry \in BOOLEAN,
          ord \in Orders :
        /\ Cardinality(timed_out) <= 1
        /\ timed_out # {} \/ nodes_retry \/ server_retry
        /\ Step(Bind(Begin, LAMBDA nq :
                maintain_sockets(nq, timed_out, {}, nodes_retry, server_retry, ord)))
    /\ UNCHANGED srv

\* the worker runs maintain_sockets() when a retry interval has passed
MaintainSocketsRetry ==
    /\ \E nodes_retry, server_retry \in BOOLEAN, ord \in Orders :
        /\ nodes_retry \/ server_retry
        /\ Step(Bind(Begin, LAMBDA nq :
                     maintain_sockets(nq, {}, {}, nodes_retry, server_retry, ord)))
    /\ UNCHANGED srv

\* the worker reads the answers of a server (wait_on_sockets ->
\* process_responses)
Reply ==
    /\ \E o \in Live(net), ord \in Orders :
        /\ net.objs[o].unanswered # <<>>
        /\ Step(Answered(Begin, o, ord))
    /\ UNCHANGED srv

\* a server finds a new block and the worker reads its tip notification
Notify ==
    \E o \in Live(net), ord \in Orders :
        LET s == o[1]
            h == srv.height[s] + 1
            item == [kind |-> "push", request |-> <<>>,
                     response |-> ServerPushTip(s, h)]
        IN /\ h <= srv.max
           /\ net.objs[o].tip > 0
           /\ srv' = [srv EXCEPT !.height[s] = h]
           /\ Step(Bind(Begin, LAMBDA nq : process_responses(nq, o, <<item>>, ord)))

\* the worker runs maintain_requests() when a request has timed out
MaintainRequests ==
    /\ \E o \in Live(net) :
        /\ net.objs[o].request # None
        /\ Step(Bind(Begin, LAMBDA nq : maintain_requests(nq, {o})))
    /\ UNCHANGED srv

\* the user chooses a server (set_parameters -> switch_to_interface)
SwitchToInterface ==
    /\ \E s \in Servers :
        /\ s # net.default_server
        /\ Step(Bind(Begin, LAMBDA nq : switch_to_interface(nq, s)))
    /\ UNCHANGED srv

\* the worker runs process_pending_sends()
ProcessPendingSends ==
    /\ net.pending_sends # <<>>
    /\ Step(Bind(Begin, LAMBDA nq : process_pending_sends(nq)))
    /\ UNCHANGED srv

\* a client thread calls send() with one message
Send ==
    /\ net.sends < MaxSends
    /\ \E m \in Messages :
          Step(Bind(Begin, LAMBDA nq : send(nq, <<m>>, Callbacks[net.sends + 1])))
    /\ UNCHANGED srv

\* a server pushes a notification for a subscription and the worker reads it
Push ==
    /\ srv.pushes < MaxPush
    /\ \E o \in Live(net), m \in Messages :
        /\ endswith(m[1], ".subscribe")
        /\ get_index(m[1], m[2]) \in DOMAIN net.subscriptions
        /\ LET item == [kind |-> "push", request |-> <<>>,
                        response |-> [method |-> m[1],
                                      params |-> Append(m[2], "pushed"),
                                      result |-> <<>>, error |-> "none",
                                      src |-> <<o[1], None - srv.pushes>>]]
           IN Step(Bind(Begin, LAMBDA nq :
                        process_responses(nq, o, <<item>>, SeqOf(Servers))))
    /\ srv' = [srv EXCEPT !.pushes = @ + 1]

\* the server that stays connected in SpecFailover
Stays == "s2"

\* the user switches away from another server to Stays
SwitchAway ==
    /\ net.default_server # Stays
    /\ Step(Bind(Begin, LAMBDA nq : switch_to_interface(nq, Stays)))
    /\ UNCHANGED srv

\* the user calls follow_chain(index)
FollowChain ==
    /\ \E index \in DOMAIN net.blockchains, ord \in Orders :
          Step(follow_chain(Begin, index, ord))
    /\ net' # net
    /\ UNCHANGED srv

\* the user calls set_parameters with the server in use
SetParameters ==
    /\ \E auto_connect \in BOOLEAN, ord \in Orders :
          Step(set_parameters(Begin, net.default_server, auto_connect, ord))
    /\ net' # net
    /\ UNCHANGED srv

\* what a server that does not keep to the protocol may answer to a
\* request: an error, neither result nor error, and for the two opening
\* requests a version the client does not speak and a tip without the
\* header hex and the height
Misanswers(s, request) ==
    LET method == request[1]
        null == [method |-> "", params |-> <<>>, result |-> <<>>,
                 error |-> "none", src |-> <<s, request[3]>>]
    IN {null, [null EXCEPT !.error = "err"]}
       \cup (IF method = "blockchain.block.headers"
             THEN {[null EXCEPT !.error = "-101"]} ELSE {})
       \cup (IF method = "blockchain.headers.subscribe"
             THEN {[null EXCEPT !.result = <<MalformedTip>>]} ELSE {})
       \cup (IF method = "server.version"
             THEN {[null EXCEPT !.result = <<"0.1">>]} ELSE {})

\* the worker reads, as the answer to the oldest request of a server, an
\* answer that does not keep to the protocol
Misreply ==
    /\ \E o \in Live(net), ord \in Orders :
        /\ net.objs[o].unanswered # <<>>
        /\ \E response \in Misanswers(o[1], Head(net.objs[o].unanswered)) :
            LET item == [kind |-> "reply", request |-> Head(net.objs[o].unanswered),
                         response |-> response]
            IN Step(Bind([Begin EXCEPT !.objs[o].unanswered = Tail(@)], LAMBDA nq :
                         process_responses(nq, o, <<item>>, ord)))
    /\ UNCHANGED srv

\* the worker reads a message without an id that carries a block header
\* nobody asked for
Unsolicited ==
    /\ \E o \in Live(net), ord \in Orders :
       \E h \in {0, srv.height[o[1]]} :
        LET item == [kind |-> "push", request |-> <<>>,
                     response |-> [method |-> "blockchain.block.header",
                                   params |-> <<h>>,
                                   result |-> <<ServerHeader(o[1], h)>>,
                                   error |-> "none", src |-> <<o[1], None>>]]
        IN Step(Bind(Begin, LAMBDA nq : process_responses(nq, o, <<item>>, ord)))
    /\ UNCHANGED srv

\* the store finds the file of a chain damaged: is_valid() is false from
\* now on
StoreDamaged ==
    /\ \A k \in DOMAIN net.blockchains : net.blockchains[k].valid
    /\ \E k \in DOMAIN net.blockchains :
          Step([Begin EXCEPT !.blockchains[k].valid = FALSE])
    /\ UNCHANGED srv

(***************************************************************************)
(* Initial states.  World(b, f, h, top): server s serves branch b[s], the  *)
(* forks y and w leave x at height f, every server's tip is at height h    *)
(* and grows to top at most.  The local chain 0 holds x up to height L;    *)
(* the scenarios record in srv.stored the height stored at the start.      *)
(***************************************************************************)
XChain(L) == [forkpoint |-> 0, parent |-> NoChain,
              hdrs |-> [j \in 1..(L + 1) |-> "x"], catch_up |-> NoServer,
              valid |-> TRUE]

World(b, f, h, top) ==
    [branch |-> b, height |-> [s \in Servers |-> h],
     fork_y |-> f, fork_w |-> f, fork_v |-> f + 1, max |-> top, pushes |-> 0,
     stored |-> None]

Forks == [s \in Servers |-> IF s = "s1" THEN "y" ELSE "w"]

Nested == [s \in Servers |-> IF s = "s1" THEN "v" ELSE "w"]

Honest == [s \in Servers |-> "x"]

\* the fork y of x stored from height f up to height h, as chain f
YChain(f, h) == [forkpoint |-> f, parent |-> 0,
                 hdrs |-> [j \in 1..(h - f + 1) |-> "y"], catch_up |-> NoServer,
                 valid |-> TRUE]

Started(L, auto_connect, picked) ==
    Bind(InitNet([k \in {0} |-> XChain(L)], <<0>>, "s1", auto_connect), LAMBDA nq :
         start_network(nq, picked))

(***************************************************************************)
(* Spec: header synchronisation with two servers.  Either the servers are  *)
(* on the forks y and w of the local chain x (or of nothing, when no       *)
(* header is stored), or the store holds x and its fork y from an earlier  *)
(* run and the servers are on v, a fork of y, and on w, a fork of x at the *)
(* height where v leaves y.                                                *)
(***************************************************************************)
InitForks ==
    /\ srv = World(Forks, ForkHeight, MaxHeight - 1, MaxHeight)
    /\ \E L \in {0 - 1, MaxHeight - 1} : net = Started(L, TRUE, Servers)

InitNested ==
    /\ \E fw \in {ForkHeight, ForkHeight + 1} :
          srv = [World(Nested, ForkHeight, MaxHeight - 1, MaxHeight)
                    EXCEPT !.fork_w = fw]
    /\ net = start_network(
                InitNet([k \in {0, ForkHeight} |->
                            IF k = 0 THEN XChain(MaxHeight - 1)
                            ELSE YChain(ForkHeight, MaxHeight - 1)],
                        <<0, ForkHeight>>, "s1", TRUE),
                Servers)

Init == InitForks \/ InitNested

Next ==
    \/ ConnectionUp
    \/ MaintainSockets
    \/ Reply
    \/ Notify

Spec == Init /\ [][Next]_vars

(***************************************************************************)
(* SpecRouter: client requests and subscriptions with two honest servers   *)
(* whose chain the local chain already holds.                              *)
(***************************************************************************)
\* every Connection thread has ended with a socket and the worker has run
\* maintain_sockets()
Connected(n) ==
    LET up == [n EXCEPT !.conn_threads = {},
                        !.socket_queue = [j \in DOMAIN SeqOf(n.conn_threads) |->
                                             <<SeqOf(n.conn_threads)[j], TRUE>>]]
    IN Collect(Bind(up, LAMBDA nq :
                    maintain_sockets(nq, {}, {}, FALSE, FALSE, SeqOf(Servers))))

\* the worker has read the next answers of server s, if it owes any
Once(n, s) ==
    IF n.objs[n.interfaces[s]].unanswered = <<>> THEN n
    ELSE Collect(Answered(n, n.interfaces[s], SeqOf(Servers)))

\* both servers are connected and have answered the opening requests
InitRouter ==
    /\ srv = World(Honest, ForkHeight, 1, 1)
    /\ \E a \in {Connected(Started(1, TRUE, Servers))} :
       \E b \in {Once(a, "s1")} :
       \E c \in {Once(b, "s1")} :
       \E d \in {Once(c, "s2")} :
          net = [d EXCEPT !.log = <<>>]

NextRouter ==
    \/ Reply
    \/ Send
    \/ ProcessPendingSends
    \/ Push
    \/ SwitchToInterface

SpecRouter == InitRouter /\ [][NextRouter]_vars

(***************************************************************************)
(* SpecCooldown: server s1 is honest and server s2 serves z, a chain with  *)
(* another genesis block; the user may choose either server at any time.   *)
(***************************************************************************)
BadGenesis == [s \in Servers |-> IF s = "s1" THEN "x" ELSE "z"]

InitCooldown ==
    /\ srv = World(BadGenesis, ForkHeight, 1, 1)
    /\ \E auto_connect \in BOOLEAN, default_server \in Servers :
          net = start_network(InitNet([k \in {0} |-> XChain(1)], <<0>>,
                                      default_server, auto_connect), Servers)

NextCooldown ==
    \/ ConnectionUp
    \/ MaintainSockets
    \/ MaintainSocketsRetry
    \/ Reply
    \/ SwitchToInterface

SpecCooldown == InitCooldown /\ [][NextCooldown]_vars

(***************************************************************************)
(* SpecLagging: the default server s1 is honest but behind (its tip is at  *)
(* height 1), s2 serves x or its fork y up to MaxHeight - 1, and the store *)
(* holds x up to MaxHeight - 1.  The user may follow a chain or set the    *)
(* parameters, and the store may find the file of a chain damaged.         *)
(***************************************************************************)
Behind(br) == [s \in Servers |-> IF s = "s1" THEN "x" ELSE br]

InitLagging ==
    \E br \in {"x", "y"}, auto_connect \in BOOLEAN :
        /\ srv = [World(Behind(br), ForkHeight, MaxHeight - 1, MaxHeight - 1)
                    EXCEPT !.height["s1"] = 1]
        /\ net = Started(MaxHeight - 1, auto_connect, Servers)

NextLagging ==
    \/ ConnectionUp
    \/ MaintainSockets
    \/ Reply
    \/ Notify
    \/ FollowChain
    \/ SetParameters
    \/ StoreDamaged

SpecLagging == InitLagging /\ [][NextLagging]_vars

(***************************************************************************)
(* SpecFailover: both servers are honest and at height MaxHeight - 1, the  *)
(* store holds x up to height 1.  The user may switch away from s1 to the  *)
(* server Stays at any point; no connection fails.  The worker keeps       *)
(* running its loop and the servers keep answering.                        *)
(***************************************************************************)
InitFailover ==
    \E auto_connect \in BOOLEAN :
        /\ srv = World(Honest, ForkHeight, MaxHeight - 1, MaxHeight - 1)
        /\ net = Started(1, auto_connect, Servers)

NextFailover ==
    \/ ConnectionUp
    \/ MaintainSockets
    \/ Reply
    \/ SwitchAway

SpecFailover ==
    /\ InitFailover
    /\ [][NextFailover]_vars
    /\ WF_vars(ConnectionUp)
    /\ WF_vars(MaintainSockets)
    /\ WF_vars(Reply)

(***************************************************************************)
(* SpecScenario: one server, s1, which answers every request; s2 is down.  *)
(* Either nothing is stored and s1 serves x, or x is stored up to          *)
(* ScenarioTip and s1 serves x or its fork y; s1's tip is at ScenarioTip.  *)
(* The worker keeps running its loop and s1 keeps answering (fairness).    *)
(***************************************************************************)
ScenarioTip == 100
ScenarioFork == 96

Single(br) == [s \in Servers |-> IF s = "s1" THEN br ELSE "down"]

InitScenario ==
    \E L \in {0 - 1, ScenarioTip}, br \in {"x", "y"},
       f \in (ScenarioFork - 2)..ScenarioFork :
        /\ L < 0 => br = "x"
        /\ br = "x" => f = ScenarioFork
        /\ srv = [World(Single(br), f, ScenarioTip, ScenarioTip)
                    EXCEPT !.stored = L]
        /\ net = Started(L, TRUE, Servers)

NextScenario ==
    \/ ConnectionUp
    \/ ConnectionRefused
    \/ MaintainSockets
    \/ Reply

SpecScenario ==
    /\ InitScenario
    /\ [][NextScenario]_vars
    /\ WF_vars(ConnectionUp)
    /\ WF_vars(MaintainSockets)
    /\ WF_vars(Reply)

(***************************************************************************)
(* SpecHostile: one server, s1, on x with its tip at ScenarioTip, which    *)
(* may answer a request against the protocol and send headers nobody       *)
(* asked for; s2 is down.  Either nothing is stored or x is stored up to   *)
(* ScenarioTip.  Clients send requests.                                    *)
(***************************************************************************)
InitHostile ==
    \E L \in {0 - 1, ScenarioTip} :
        /\ srv = [World(Single("x"), ScenarioFork, ScenarioTip, ScenarioTip)
                    EXCEPT !.stored = L]
        /\ net = Started(L, TRUE, Servers)

NextHostile ==
    \/ ConnectionUp
    \/ ConnectionRefused
    \/ MaintainSockets
    \/ Reply
    \/ Misreply
    \/ Unsolicited
    \/ Send
    \/ ProcessPendingSends

SpecHostile == InitHostile /\ [][NextHostile]_vars

(***************************************************************************)
(* Claims.                                                                 *)
(***************************************************************************)
\* the interfaces of the live table that are in mode catch_up on chain k
CatchingUp(k) ==
    {o \in Live(net) : net.objs[o].mode = "catch_up" /\ net.objs[o].blockchain = k}

\* C1: in every reachable state, for every chain of the chain set, at most
\* one interface of the live interface table is in mode catch_up with that
\* chain as its blockchain.
C1_OneCatchUpPerChain ==
    \A k \in DOMAIN net.blockchains : Cardinality(CatchingUp(k)) <= 1

\* every live interface is in mode default
AllDefault ==
    /\ Live(net) # {}
    /\ \A o \in Live(net) : net.objs[o].mode = "default"

\* the key of the chain blockchain() returns
Followed ==
    IF net.interface # NoIface /\ net.objs[net.interface].blockchain # NoChain
    THEN net.objs[net.interface].blockchain
    ELSE net.blockchain_index

\* the header chain k holds at height h links to the one below it
Linked(k, h) ==
    LET id == Chain_get_hash(net.blockchains, k, h) IN
    /\ id # "none"
    /\ IF h = 0 THEN id = GENESIS
       ELSE PrevOf(h, id) = Chain_get_hash(net.blockchains, k, h - 1)

\* C2: once every interface is back in mode default, the followed chain
\* holds a header at every height from its forkpoint to its height and each
\* of them links to its predecessor.
C2_FollowedChainConnected ==
    AllDefault /\ Followed \in DOMAIN net.blockchains =>
        \A h \in net.blockchains[Followed].forkpoint ..
                  Chain_height(net.blockchains[Followed]) : Linked(Followed, h)

\* the interfaces that are bisecting
Bisecting == {o \in Live(net) : net.objs[o].mode = "binary"}

\* C3: an interface in binary mode keeps good < bad (so that every midpoint
\* it asks for narrows the interval and the bisection ends at bad = good + 1).
C3_GoodBelowBad ==
    \A o \in Bisecting : net.objs[o].good < net.objs[o].bad

\* the requests of method m that the unanswered-request table holds
Outstanding(m) ==
    {net.unanswered_requests[id][2] :
        id \in {i \in DOMAIN net.unanswered_requests :
                    net.unanswered_requests[i][1] = m}}

\* the standing subscriptions before a step: answered or still unanswered
StandingHashes ==
    {<<h>> : h \in net.subscribed_addresses}
        \cup Outstanding("blockchain.scripthash.subscribe")

StandingTokens ==
    net.subscribed_tokens \cup Outstanding("blockchain.contract.event.subscribe")

\* how many requests (m, params) the step queues on the new active interface
QueuedByStep(m, params) ==
    LET q == net'.objs[net'.interface].unanswered IN
    Cardinality({j \in DOMAIN q : /\ q[j][1] = m
                                  /\ q[j][2] = params
                                  /\ q[j][3] >= net.message_id})

\* C4: a step that changes the active interface to a connected server
\* empties the subscription response cache and queues on the new active
\* interface exactly one subscribe request for every standing subscription.
C4_ResendExactlyOnce ==
    [][net'.interface # net.interface /\ net'.interface # NoIface =>
          /\ net'.sub_cache = <<>>
          /\ \A p \in StandingHashes :
                QueuedByStep("blockchain.scripthash.subscribe", p) = 1
          /\ \A p \in StandingTokens :
                QueuedByStep("blockchain.contract.event.subscribe", p) = 1]_vars

\* server s is in the disconnected set and neither connected nor connecting
Cooled(s) ==
    /\ s \in net.disconnected_servers
    /\ s \notin DOMAIN net.interfaces
    /\ s \notin net.connecting

\* after the step, a connection to s exists or is being opened, or s is the
\* server of the active interface
SelectedAfter(s) ==
    \/ s \in net'.connecting
    \/ s \in DOMAIN net'.interfaces
    \/ (net'.interface # NoIface /\ net'.interface[1] = s)

\* interface o is in backward search, waits for the header at height 0, and
\* the header its server has at height 0 is in no known chain
GenesisMismatch(o) ==
    /\ o \in Live(net)
    /\ net.objs[o].mode = "backward"
    /\ net.objs[o].request = 0
    /\ check_header(net, ServerHeader(o[1], 0)) = NoChain

\* the state after the worker has read the answer interface o waits for
AfterAnswer(o, ord) == Collect(Answered(Begin, o, ord))

\* the first conjunct of C5: the teardown
TornDownOnGenesisMismatch ==
    \A o \in Live(net), ord \in Orders :
        GenesisMismatch(o) =>
            /\ o \notin Live(AfterAnswer(o, ord))
            /\ o[1] \in AfterAnswer(o, ord).disconnected_servers

\* the step is the user's choice of server s (set_parameters)
ChosenByUser(s) == net.default_server # s /\ net'.default_server = s

S1 == IF "s1" \in DOMAIN net.interfaces THEN net.interfaces["s1"] ELSE NoIface

\* the methods of the requests S1 waits for
Waits(m) ==
    S1 # NoIface /\ \E j \in DOMAIN net.objs[S1].unanswered :
                        net.objs[S1].unanswered[j][1] = m

ModeOfS1 == IF S1 = NoIface THEN "default" ELSE net.objs[S1].mode

\* nothing is stored at the start and s1 serves x
EmptyStart == srv.stored = 0 - 1

C6_Idle ==
    /\ ModeOfS1 = "default"
    /\ Chain_height(net.blockchains[0]) < 0
    /\ net.blockchains[0].catch_up = NoServer

C6_Header0 ==
    /\ ModeOfS1 = "catch_up"
    /\ net.objs[S1].blockchain = 0
    /\ net.blockchains[0].catch_up = "s1"
    /\ Chain_height(net.blockchains[0]) < 0
    /\ net.objs[S1].request = 0
    /\ Waits("blockchain.block.header")
    /\ net.requested_chunks = {}

C6_Chunks ==
    /\ ModeOfS1 = "catch_up"
    /\ net.objs[S1].blockchain = 0
    /\ net.blockchains[0].catch_up = "s1"
    /\ Chain_height(net.blockchains[0]) \in 0..(ScenarioTip - 1)
    /\ net.requested_chunks # {}
    /\ Waits("blockchain.block.headers")
    /\ ~Waits("blockchain.block.header")

C6_Done ==
    /\ S1 # NoIface
    /\ net.objs[S1].mode = "default"
    /\ net.objs[S1].tip = ScenarioTip
    /\ net.blockchains[0].catch_up = NoServer
    /\ Chain_height(net.blockchains[0]) = ScenarioTip

\* C6: with nothing stored and the single honest server s1 announcing tip
\* ScenarioTip, the interface enters catch_up holding the marker of chain
\* 0, first asks for the header at height 0, then fetches chunks, and
\* eventually is in mode default with the marker released and the local
\* height equal to ScenarioTip.
C6_CatchUpFromNothing ==
    /\ [](EmptyStart => C6_Idle \/ C6_Header0 \/ C6_Chunks \/ C6_Done)
    /\ [][EmptyStart =>
            /\ C6_Idle => C6_Idle' \/ C6_Header0'
            /\ C6_Header0 => C6_Header0' \/ C6_Chunks'
            /\ C6_Chunks => C6_Chunks' \/ C6_Done'
            /\ C6_Done => C6_Done']_vars
    /\ (EmptyStart ~> C6_Done)

C6_Witness == EmptyStart /\ C6_Done

\* the store holds x up to ScenarioTip and s1 serves the fork y that leaves
\* x at ScenarioFork
ForkStart ==
    /\ srv.stored = ScenarioTip
    /\ srv.branch["s1"] = "y"
    /\ srv.fork_y = ScenarioFork

C7_Done ==
    /\ S1 # NoIface
    /\ net.objs[S1].mode = "default"
    /\ net.objs[S1].blockchain = ScenarioFork
    /\ ScenarioFork \in DOMAIN net.blockchains
    /\ net.blockchains[ScenarioFork].catch_up = NoServer
    /\ Chain_height(net.blockchains[ScenarioFork]) = ScenarioTip

\* C7: with x stored up to ScenarioTip and the server s1 announcing the tip
\* of a fork that leaves x at ScenarioFork, the interface goes through
\* default, backward, binary, catch_up, default in that order; when binary
\* ends, good = ScenarioFork - 1 and bad = ScenarioFork, a new chain with
\* forkpoint ScenarioFork and parent 0 is registered under ScenarioFork,
\* and chain 0 is never changed; eventually the interface is in mode
\* default on the new chain, which reaches ScenarioTip.
C7_ForkScenario ==
    /\ [][ForkStart /\ ModeOfS1' # ModeOfS1 =>
            <<ModeOfS1, ModeOfS1'>> \in {<<"default", "backward">>,
                                         <<"backward", "binary">>,
                                         <<"binary", "catch_up">>,
                                         <<"catch_up", "default">>}]_vars
    /\ [][ForkStart /\ ModeOfS1 = "binary" /\ ModeOfS1' = "catch_up" =>
            /\ net'.objs[S1].good = ScenarioFork - 1
            /\ net'.objs[S1].bad = ScenarioFork
            /\ net'.objs[S1].blockchain = ScenarioFork
            /\ DOMAIN net.blockchains = {0}
            /\ DOMAIN net'.blockchains = {0, ScenarioFork}
            /\ net'.blockchains[ScenarioFork].forkpoint = ScenarioFork
            /\ net'.blockchains[ScenarioFork].parent = 0
            /\ net'.blockchains[ScenarioFork].catch_up = "s1"]_vars
    /\ [](ForkStart => net.blockchains[0] = XChain(ScenarioTip))
    /\ [](ForkStart /\ ModeOfS1 \in {"backward", "binary"} =>
            DOMAIN net.blockchains = {0})
    /\ (ForkStart ~> C7_Done)

C7_Witness == ForkStart /\ C7_Done

(***************************************************************************)
(* The request router.                                                     *)
(***************************************************************************)
\* the positions of the response log of the step at which callback cb was
\* called
Calls(cb) == {i \in DOMAIN net'.log : net'.log[i][1] = cb}

\* the step is a run of process_pending_sends()
Flushed == net.pending_sends # <<>> /\ net'.pending_sends = <<>>

\* the subscribe calls waiting to be flushed whose index the cache holds
CachedCalls ==
    {j \in DOMAIN net.pending_sends :
        LET m == net.pending_sends[j][1][1] IN
        /\ endswith(m[1], ".subscribe")
        /\ get_index(m[1], m[2]) \in DOMAIN net.sub_cache}

\* C8: a subscribe call flushed while the response cache holds a response
\* for its index has its callback called with that cached response, no
\* request is queued for it, and its callback is registered for the index.
C8_CachedSubscribe ==
    [][Flushed =>
        \A j \in CachedCalls :
            LET call == net.pending_sends[j]
                m == call[1][1]
                k == get_index(m[1], m[2])
            IN /\ Calls(call[2]) # {}
               /\ \A i \in Calls(call[2]) : net'.log[i][2] = net.sub_cache[k]
               /\ QueuedByStep(m[1], m[2]) = 0
               /\ \A id \in DOMAIN net'.unanswered_requests :
                     net'.unanswered_requests[id][4] # <<call[3], 1>>
               /\ k \in DOMAIN net'.subscriptions
               /\ IsMember(call[2], net'.subscriptions[k])]_vars

\* the second send() was a subscribe call answered from the cache
C8_Witness ==
    /\ net.pending_sends = <<>>
    /\ <<1, 1>> \notin DOMAIN net.fired
    /\ \A id \in DOMAIN net.unanswered_requests :
          net.unanswered_requests[id][4] # <<1, 1>>
    /\ \E i \in DOMAIN net.log, k \in DOMAIN net.sub_cache :
          /\ net.log[i] = <<Callbacks[2], net.sub_cache[k]>>
          /\ IsMember(Callbacks[2], net.subscriptions[k])

\* the places of the requests the interfaces wait for
Places(n) ==
    UNION {{<<o, j>> : j \in DOMAIN n.objs[o].unanswered} : o \in DOMAIN n.objs}

IdAt(n, pl) == n.objs[pl[1]].unanswered[pl[2]][3]

\* how many requests of the queue of o the step has left in it: the longest
\* end of the old queue that begins the new one
Kept(o) ==
    IF o \notin DOMAIN net.objs THEN 0
    ELSE LET old == net.objs[o].unanswered
             new == net'.objs[o].unanswered
         IN Max({d \in 0..Min2(Len(old), Len(new)) :
                    SubSeq(old, Len(old) - d + 1, Len(old)) = SubSeq(new, 1, d)})

\* the places of the requests the step has queued
Added == {pl \in Places(net') : pl[2] > Kept(pl[1])}

\* C9: every request queued gets a message id greater than every id
\* assigned before it, so no two queued requests share an id: the ids a
\* step assigns are distinct and lie from the old counter up to the new
\* one, and the requests waiting in all queues have distinct ids below
\* the counter.
C9_IdsStrictlyIncrease ==
    /\ [](\A p \in Places(net) :
            /\ IdAt(net, p) < net.message_id
            /\ \A q \in Places(net) : p # q => IdAt(net, p) # IdAt(net, q))
    /\ [][/\ net'.message_id >= net.message_id
          /\ \A p \in Added :
                /\ IdAt(net', p) >= net.message_id
                /\ IdAt(net', p) < net'.message_id
                /\ \A q \in Added : p # q => IdAt(net', p) # IdAt(net', q)]_vars

\* two interfaces wait for requests at the same time
C9_Witness ==
    \E o1, o2 \in Live(net) :
        /\ o1 # o2
        /\ Len(net.objs[o1].unanswered) >= 2
        /\ Len(net.objs[o2].unanswered) >= 2

\* the step has read answers from the active interface, which stays active
ActiveRead ==
    /\ net.interface # NoIface
    /\ net'.interface = net.interface
    /\ net.interface \in DOMAIN net'.objs
    /\ Len(net'.objs[net.interface].unanswered)
          < Len(net.objs[net.interface].unanswered)

\* the requests answered by the step that the table holds
Matched ==
    {r \in {Batch(net.interface)[j].request : j \in DOMAIN Batch(net.interface)} :
        r[3] \in DOMAIN net.unanswered_requests}

\* callback cb is registered for some subscription
Subscribed(n, cb) ==
    \E k \in DOMAIN n.subscriptions : IsMember(cb, n.subscriptions[k])

\* the one request of callback cb has been answered
Served(cb) ==
    \E j \in DOMAIN Callbacks :
        Callbacks[j] = cb /\ <<j - 1, 1>> \in DOMAIN net.fired

\* C10: the table holds at most one entry for a request; when the reply to
\* a request of the table arrives on the active interface, its entry is
\* removed and its callback is called exactly once; the callback of a
\* one-shot request is never called again, and the callback of a
\* subscription stays registered and is called on every later push.
C10_OneShotOnce ==
    /\ [](/\ \A id \in DOMAIN net.unanswered_requests : id < net.message_id
          /\ \A i, j \in DOMAIN net.unanswered_requests :
                i # j => net.unanswered_requests[i][4]
                            # net.unanswered_requests[j][4]
          /\ \A tag \in DOMAIN net.fired : net.fired[tag] = 1)
    /\ [][ActiveRead =>
            \A r \in Matched :
                LET e == net.unanswered_requests[r[3]] IN
                /\ r[3] \notin DOMAIN net'.unanswered_requests
                /\ \A id \in DOMAIN net'.unanswered_requests :
                      net'.unanswered_requests[id][4] # e[4]
                /\ Cardinality(Calls(e[3])) = 1
                /\ endswith(r[1], ".subscribe") => Subscribed(net', e[3])]_vars
    /\ [][\A j \in DOMAIN Callbacks :
            Served(Callbacks[j]) /\ ~Subscribed(net, Callbacks[j])
                => Calls(Callbacks[j]) = {}]_vars
    /\ [][srv'.pushes # srv.pushes =>
            \E k \in DOMAIN net.subscriptions :
                /\ net.subscriptions[k] # <<>>
                /\ \A i \in DOMAIN net.subscriptions[k] :
                      /\ Calls(net.subscriptions[k][i]) # {}
                      /\ Subscribed(net', net.subscriptions[k][i])]_vars

\* a one-shot request and a subscription have both been answered, and a
\* push has just called the subscription's callback again
C10_Witness ==
    /\ DOMAIN net.fired = {<<0, 1>>, <<1, 1>>}
    /\ srv.pushes = 1
    /\ \E a, b \in DOMAIN Callbacks :
          /\ Subscribed(net, Callbacks[a])
          /\ ~Subscribed(net, Callbacks[b])
          /\ \E i \in DOMAIN net.log : net.log[i][1] = Callbacks[a]

(***************************************************************************)
(* The chain set.                                                          *)
(***************************************************************************)
\* C11: the followed-chain selector is a key of the chain map, so that
\* blockchain() and get_local_height() return a chain.
C11_FollowedChainExists ==
    /\ net.blockchain_index \in DOMAIN net.blockchains
    /\ blockchain(net).crashed = net.crashed

\* C12: no step removes a chain from the chain map, and a step that
\* registers a fork leaves every other chain in the map.
C12_ChainSetGrows ==
    [][DOMAIN net.blockchains \subseteq DOMAIN net'.blockchains]_vars

\* the interface of the server that stays connected has caught up: it is
\* in mode default and the chain it follows has reached the tip it announced
CaughtUp ==
    /\ Stays \in DOMAIN net.interfaces
    /\ LET i == net.objs[net.interfaces[Stays]] IN
        /\ i.mode = "default"
        /\ i.tip > 0
        /\ i.blockchain \in DOMAIN net.blockchains
        /\ Chain_height(net.blockchains[i.blockchain]) = i.tip

\* C13: whenever another server is switched away from, at any point of its
\* sync, the interface of the honest server that stays connected eventually
\* completes its catch-up.
C13_HonestServerCatchesUp == []<>CaughtUp


(***************************************************************************)
(* Server messages against the protocol.                                   *)
(***************************************************************************)
\* C14: in every reachable state no handler of the worker has raised an
\* exception or failed an assertion, whatever the servers have sent
C14_NoHandlerRaises == net.crashed = ""

(***************************************************************************)
(* The opening requests of an interface.                                   *)
(***************************************************************************)
\* the Interface objects of the live table that the step has made
Opened == Live(net') \ DOMAIN net.objs

\* C15: every step that puts a new interface in the live table leaves it
\* with server.version as the first request queued on it and
\* blockchain.headers.subscribe as the second, whatever else the step has
\* queued on it
C15_OpeningRequests ==
    [][\A o \in Opened :
          LET q == net'.objs[o].unanswered IN
          /\ Len(q) >= 2
          /\ q[1][1] = "server.version"
          /\ q[2][1] = "blockchain.headers.subscribe"
          /\ \A j \in 2..Len(q) : q[j - 1][3] < q[j][3]]_vars

\* the active interface has not been answered yet: its queue holds the two
\* opening requests, followed by the others and a client's request
C15_Witness ==
    /\ net.interface \in Live(net)
    /\ LET q == net.objs[net.interface].unanswered IN
       /\ Len(q) > 2
       /\ q[1][1] = "server.version"
       /\ q[2][1] = "blockchain.headers.subscribe"
       /\ \E j \in 3..Len(q) : q[j][1] = "blockchain.scripthash.get_history"

(***************************************************************************)
(* The answer to the header subscription.                                  *)
(***************************************************************************)
\* the next answers the worker reads from o end with the answer to
\* blockchain.headers.subscribe
AwaitsTip(o) ==
    /\ Batch(o) # <<>>
    /\ Batch(o)[Len(Batch(o))].request[1] = "blockchain.headers.subscribe"

\* the worker reads the next answers of o, the last one being `response`
AfterTip(o, response) ==
    LET items == [Batch(o) EXCEPT ![Len(Batch(o))].response = response]
        n1 == [Begin EXCEPT !.objs[o].unanswered = SubSeq(@, Len(items) + 1, Len(@))]
    IN Bind(n1, LAMBDA nq : process_responses(nq, o, items, SeqOf(Servers)))

\* the interface o of the state before is torn down in n and nothing of
\* the header sync has moved
TornDown(n, o) ==
    /\ n.crashed = ""
    /\ o[1] \notin DOMAIN n.interfaces
    /\ o[1] \in n.disconnected_servers
    /\ n.objs[o].closed
    /\ n.objs[o].mode = net.objs[o].mode
    /\ n.objs[o].tip = net.objs[o].tip
    /\ n.objs[o].request = net.objs[o].request
    /\ n.blockchains = net.blockchains
    /\ n.requested_chunks = net.requested_chunks

\* C16: in every reachable state, for every interface that awaits the
\* answer to blockchain.headers.subscribe: if the answer carries an error,
\* or its result lacks the header hex or the height, reading it tears the
\* interface down through connection_down and takes no step of the sync
C16_BadTipTearsDown ==
    \A o \in Live(net) :
        AwaitsTip(o) =>
            \A response \in Misanswers(o[1], <<"blockchain.headers.subscribe",
                                              <<TRUE>>, 0>>) :
                TornDown(AfterTip(o, response), o)

(***************************************************************************)
(* The answer to the version call.                                         *)
(***************************************************************************)
\* the oldest request of o that is not answered yet is server.version
AwaitsVersion(o) ==
    /\ net.objs[o].unanswered # <<>>
    /\ Head(net.objs[o].unanswered)[1] = "server.version"

\* the worker reads `response` as the answer to the oldest request of o
AfterHead(o, response) ==
    LET item == [kind |-> "reply", request |-> Head(net.objs[o].unanswered),
                 response |-> response]
    IN Bind([Begin EXCEPT !.objs[o].unanswered = Tail(@)], LAMBDA nq :
            process_responses(nq, o, <<item>>, SeqOf(Servers)))

\* C17: in every reachable state, for every interface that awaits the
\* answer to server.version: if the answer carries an error or a protocol
\* version the client does not speak, reading it tears the interface down
C17_BadVersionTearsDown ==
    \A o \in Live(net) :
        AwaitsVersion(o) =>
            \A response \in Misanswers(o[1], Head(net.objs[o].unanswered)) :
                (response.error # "none" \/ response.result = <<"0.1">>)
                    => LET n == AfterHead(o, response) IN
                       /\ o[1] \notin DOMAIN n.interfaces
                       /\ n.objs[o].closed

(***************************************************************************)
(* Errors in the answers to the other calls.                               *)
(***************************************************************************)
\* the calls the header sync rests on
SyncCalls == {"blockchain.headers.subscribe", "blockchain.block.header",
              "blockchain.block.headers"}

\* a reply to `request` with a populated error field
ErrorTo(o, request) ==
    [method |-> "", params |-> <<>>, result |-> <<>>, error |-> "err",
     src |-> <<o[1], request[3]>>]

\* the callbacks registered for `request`: the one of the client request
\* with its id, or else those of the subscription it names
Registered(request) ==
    IF request[3] \in DOMAIN net.unanswered_requests
    THEN <<net.unanswered_requests[request[3]][3]>>
    ELSE Get(net.subscriptions, get_index(request[1], request[2]), <<>>)

\* C18: in every reachable state where the worker runs, for every
\* interface whose oldest unanswered request is none of the sync calls:
\* reading a reply with a populated error field to it calls the callbacks
\* registered for the request or subscription with that reply, each once,
\* and leaves the interface table, the active interface, the disconnected
\* set and every interface's mode as they were
C18_ErrorReachesCallbacks ==
    \A o \in Live(net) :
        (/\ net.crashed = ""
         /\ net.objs[o].unanswered # <<>>
         /\ Head(net.objs[o].unanswered)[1] \notin SyncCalls)
        => LET request == Head(net.objs[o].unanswered)
               passed == [ErrorTo(o, request) EXCEPT !.method = request[1],
                                                     !.params = request[2]]
               n == AfterHead(o, ErrorTo(o, request))
           IN /\ n.crashed = ""
              /\ n.log = [j \in DOMAIN Registered(request) |->
                             <<Registered(request)[j], passed>>]
              /\ n.interfaces = net.interfaces
              /\ n.interface = net.interface
              /\ n.disconnected_servers = net.disconnected_servers
              /\ \A p \in DOMAIN net.objs : n.objs[p].mode = net.objs[p].mode

(***************************************************************************)
(* The lagging check.                                                      *)
(***************************************************************************)
\* the header stored at the local best height of the followed chain
LocalBest ==
    LET m == blockchain(net) IN
    Chain_read_header(m.blockchains, m.blockchain_index, get_local_height(m))

\* the active server has announced no height, or a tip more than one block
\* below the local height
Lagging ==
    \/ get_server_height(net) = 0
    \/ get_local_height(blockchain(net)) - get_server_height(net) > 1

\* C19: in every reachable state where the worker runs and follows a chain
\* of the chain map, a call of switch_lagging_interface changes the active
\* interface only if auto_connect is on and the active server lags, and
\* then the new active interface is in the live interface table and its
\* tip header is the header stored at the local best height
C19_LaggingSwitch ==
    (net.crashed = "" /\ blockchain(net).crashed = "")
    => \A ord \in Orders :
          LET n == Bind(Begin, LAMBDA nq : switch_lagging_interface(nq, ord)) IN
          n.interface # net.interface
          => /\ net.auto_connect
             /\ Lagging
             /\ n.interface \in Live(n)
             /\ n.objs[n.interface].tip_header = LocalBest

(***************************************************************************)
(* The subscription response cache.                                        *)
(***************************************************************************)
\* C20: in every reachable state, every entry of the subscription response
\* cache is a response read from the active interface: there is an active
\* interface and the response came from its server
C20_CacheFromActive ==
    \A k \in DOMAIN net.sub_cache :
        /\ net.interface # NoIface
        /\ net.sub_cache[k].src[1] = net.objs[net.interface].server

(***************************************************************************)
(* SpecSubscribers: clients subscribe to the header tip, to a script hash  *)
(* and to a contract event, or ask for a header, with two honest servers,  *)
(* which push notifications and announce a new tip.                        *)
(***************************************************************************)
\* the subscribe calls of the client API: subscribe_to_headers,
\* subscribe_to_scripthash, subscribe_tokens
Subscriptions ==
    {<<"blockchain.headers.subscribe", <<TRUE>>>>,
     <<"blockchain.scripthash.subscribe", <<"h1">>>>,
     <<"blockchain.contract.event.subscribe", <<"a1", "c1", "t1">>>>}

\* a client thread subscribes with its callback
Subscribe ==
    /\ net.sends < MaxSends
    /\ \E m \in Subscriptions :
          Step(Bind(Begin, LAMBDA nq : send(nq, <<m>>, Callbacks[net.sends + 1])))
    /\ UNCHANGED srv

\* a client thread asks for the header at a height with send()
HeaderRequest ==
    /\ net.sends < MaxSends
    /\ \E h \in 0..srv.max :
          Step(Bind(Begin, LAMBDA nq :
                    send(nq, <<<<"blockchain.block.header", <<h>>>>>>,
                         Callbacks[net.sends + 1])))
    /\ UNCHANGED srv

InitSubscribers ==
    /\ srv = World(Honest, ForkHeight, 1, 2)
    /\ \E a \in {Connected(Started(1, TRUE, Servers))} :
       \E b \in {Once(a, "s1")} :
       \E c \in {Once(b, "s1")} :
       \E d \in {Once(c, "s2")} :
          net = [d EXCEPT !.log = <<>>]

NextSubscribers ==
    \/ Subscribe
    \/ HeaderRequest
    \/ ProcessPendingSends
    \/ Reply
    \/ Push
    \/ Notify

SpecSubscribers == InitSubscribers /\ [][NextSubscribers]_vars

(***************************************************************************)
(* The index of a push and the index of its subscription.                  *)
(***************************************************************************)
\* the notification the server of interface o sends for the subscription m,
\* as it is read from the socket: a new tip for the header subscription,
\* the subscription's params followed by the new value for the others
PushOf(o, m) ==
    IF m[1] = "blockchain.headers.subscribe"
    THEN ServerPushTip(o[1], srv.height[o[1]] + 1)
    ELSE [method |-> m[1], params |-> Append(m[2], "pushed"),
          result |-> <<>>, error |-> "none", src |-> <<o[1], None>>]

\* the callbacks registered for the subscription m
SubscribersOf(m) ==
    LET l == Get(net.subscriptions, get_index(m[1], m[2]), <<>>)
    IN {l[j] : j \in DOMAIN l}

\* the callbacks called when the worker reads the notification for m from o
CalledByPush(o, m) ==
    LET item == [kind |-> "push", request |-> <<>>, response |-> PushOf(o, m)]
        n == Bind(Begin, LAMBDA nq :
                  process_responses(nq, o, <<item>>, SeqOf(Servers)))
    IN {n.log[j][1] : j \in DOMAIN n.log}

\* C21: for each of the three subscriptions a client holds, the index
\* computed from a notification pushed by a server is the index computed
\* from the subscribe request, and the notification is handed to every
\* callback registered for that subscription and to no other callback
C21_PushReachesSubscribers ==
    net.crashed = ""
    => \A o \in Live(net), m \in Subscriptions :
          /\ SubscribersOf(m) # {}
                => get_index(PushOf(o, m).method, PushOf(o, m).params)
                      = get_index(m[1], m[2])
          /\ CalledByPush(o, m) = SubscribersOf(m)

\* the same for the script-hash and the contract-event subscription only
C21_ExceptHeaderTip ==
    net.crashed = ""
    => \A o \in Live(net), m \in Subscriptions :
          m[1] # "blockchain.headers.subscribe"
          => /\ SubscribersOf(m) # {}
                   => get_index(PushOf(o, m).method, PushOf(o, m).params)
                         = get_index(m[1], m[2])
             /\ CalledByPush(o, m) = SubscribersOf(m)

\* a callback is registered for the header tip and for another subscription
C21_Subscribed ==
    /\ SubscribersOf(<<"blockchain.headers.subscribe", <<TRUE>>>>) # {}
    /\ \E m \in Subscriptions :
          /\ m[1] # "blockchain.headers.subscribe"
          /\ SubscribersOf(m) # {}
    /\ Live(net) # {}

(***************************************************************************)
(* The shape of the responses handed to callbacks.                         *)
(***************************************************************************)
\* the response carries method, params, result and error
Canonical(r) == {"method", "params", "result", "error"} \subseteq DOMAIN r

\* before the step, callback cb had made the request or held the
\* subscription (method, params): the request waits to be flushed or to be
\* answered, or cb is registered for its index
Originates(cb, method, params) ==
    \/ \E j \in DOMAIN net.pending_sends :
          /\ net.pending_sends[j][2] = cb
          /\ IsMember(<<method, params>>, net.pending_sends[j][1])
    \/ \E id \in DOMAIN net.unanswered_requests :
          /\ net.unanswered_requests[id][1] = method
          /\ net.unanswered_requests[id][2] = params
          /\ net.unanswered_requests[id][3] = cb
    \/ /\ endswith(method, ".subscribe")
       /\ IsMember(cb, Get(net.subscriptions, get_index(method, params), <<>>))

\* C22: every response a step hands to a callback carries method, params,
\* result and error, and its method and params are those of a request or
\* a subscription of that callback, for replies, cached responses and
\* pushes, and for every method
C22_CanonicalResponses ==
    [][\A i \in DOMAIN net'.log :
          /\ Canonical(net'.log[i][2])
          /\ Originates(net'.log[i][1], net'.log[i][2].method,
                        net'.log[i][2].params)]_vars

\* the same for every response but the replies to a single-header request
C22_ExceptSingleHeader ==
    [][\A i \in DOMAIN net'.log :
          (\A id \in DOMAIN net.unanswered_requests :
              \/ net.unanswered_requests[id][3] # net'.log[i][1]
              \/ net.unanswered_requests[id][1] # "blockchain.block.header")
          => /\ Canonical(net'.log[i][2])
             /\ Originates(net'.log[i][1], net'.log[i][2].method,
                           net'.log[i][2].params)]_vars

\* a reply, a cached response and a push have been handed to callbacks
C22_Handed ==
    /\ net.log # <<>>
    /\ \A i \in DOMAIN net.log : Canonical(net.log[i][2])
    /\ srv.pushes > 0

(***************************************************************************)
(* What a teardown leaves behind.                                          *)
(***************************************************************************)
\* the interfaces of the live table that the step tears down
\* (connection_down or close_interface)
Closed == {o \in Live(net) : o \notin Live(net')}

\* C23: after a step that tears an interface down, its server is not in
\* the live interface table, the interface is not the active one, and no
\* chain's catch_up marker names its server
C23_TeardownLeavesNothing ==
    [][\A o \in Closed :
          /\ o[1] \notin DOMAIN net'.interfaces
          /\ net'.interface # o
          /\ \A k \in DOMAIN net'.blockchains :
                net'.blockchains[k].catch_up # o[1]]_vars

\* the same without the catch_up markers
C23_TeardownLeavesTables ==
    [][\A o \in Closed :
          /\ o[1] \notin DOMAIN net'.interfaces
          /\ net'.interface # o]_vars

\* the same for the interfaces torn down through connection_down, which
\* adds the server to the disconnected set
C23_ConnectionDownLeavesNothing ==
    [][\A o \in Closed :
          o[1] \in net'.disconnected_servers \ net.disconnected_servers
          => /\ o[1] \notin DOMAIN net'.interfaces
             /\ net'.interface # o
             /\ \A k \in DOMAIN net'.blockchains :
                   net'.blockchains[k].catch_up # o[1]]_vars

(***************************************************************************)
(* SpecBroadcast: clients broadcast a transaction with two honest servers  *)
(* connected; a server accepts it or rejects it, and the user may choose   *)
(* the other server at any time.                                           *)
(***************************************************************************)
\* str(transaction) of the transaction the clients broadcast
RawTx == "tx1"

\* a client thread calls broadcast_transaction(transaction, callback)
Broadcast ==
    /\ net.sends < MaxSends
    /\ Step(Bind(Begin, LAMBDA nq :
                 send(nq, <<<<"blockchain.transaction.broadcast", <<RawTx>>>>>>,
                      Callbacks[net.sends + 1])))
    /\ UNCHANGED srv

\* what a server that rejects a broadcast answers: an error, or (older
\* servers) the reason as the result
Rejections(s, request) ==
    LET base == [method |-> "", params |-> <<>>, result |-> <<>>,
                 error |-> "none", src |-> <<s, request[3]>>]
    IN {[base EXCEPT !.error = "rejected"],
        [base EXCEPT !.result = <<"the transaction was rejected">>]}

\* the worker reads a server's rejection of the broadcast it was sent
Rejects ==
    /\ \E o \in Live(net), ord \in Orders :
        /\ net.objs[o].unanswered # <<>>
        /\ Head(net.objs[o].unanswered)[1] = "blockchain.transaction.broadcast"
        /\ \E response \in Rejections(o[1], Head(net.objs[o].unanswered)) :
            LET item == [kind |-> "reply", request |-> Head(net.objs[o].unanswered),
                         response |-> response]
            IN Step(Bind([Begin EXCEPT !.objs[o].unanswered = Tail(@)], LAMBDA nq :
                         process_responses(nq, o, <<item>>, ord)))
    /\ UNCHANGED srv

\* broadcast_transaction without a callback, from the response its wait
\* ends with: (success, text)
broadcast_transaction(response, txid) ==
    IF response.error # "none"
    THEN <<FALSE, "error: " \o response.error>>
    ELSE IF response.result # <<txid>>
    THEN <<FALSE, "error: " \o response.result[1]>>
    ELSE <<TRUE, response.result[1]>>

NextBroadcast ==
    \/ Broadcast
    \/ ProcessPendingSends
    \/ Reply
    \/ Rejects
    \/ SwitchToInterface

SpecBroadcast == InitRouter /\ [][NextBroadcast]_vars

(***************************************************************************)
(* Broadcasts.                                                             *)
(***************************************************************************)
\* how many requests (m, params) the step queues, on any interface
QueuedAnywhere(m, params) ==
    Cardinality({pl \in Places(net') :
                    /\ net'.objs[pl[1]].unanswered[pl[2]][1] = m
                    /\ net'.objs[pl[1]].unanswered[pl[2]][2] = params
                    /\ IdAt(net', pl) >= net.message_id})

\* the positions of the response log that hold the answer to a broadcast
BroadcastAnswers ==
    {i \in DOMAIN net.log :
        /\ Canonical(net.log[i][2])
        /\ net.log[i][2].method = "blockchain.transaction.broadcast"}

\* the caller gets the server's reason when the broadcast is rejected, and
\* success only when the id returned is the transaction's
BroadcastOutcome ==
    \A i \in BroadcastAnswers :
        LET r == net.log[i][2]
            out == broadcast_transaction(r, Txid(r.params[1]))
        IN /\ r.error # "none" => out = <<FALSE, "error: " \o r.error>>
           /\ out[1] => r.error = "none" /\ r.result = <<Txid(r.params[1])>>
           /\ (r.error = "none" /\ r.result # <<Txid(r.params[1])>>)
                 => out = <<FALSE, "error: " \o r.result[1]>>

\* C24: a broadcast request that has been queued on a server is not queued
\* again on any interface by a later step that is not a new call of the
\* client; the caller of a rejected broadcast gets the failure with the
\* server's reason, and success only when the id returned is the
\* transaction's
C24_BroadcastNotResent ==
    /\ [][~Flushed =>
            \A id \in DOMAIN net.unanswered_requests :
                net.unanswered_requests[id][1] = "blockchain.transaction.broadcast"
                => QueuedAnywhere(net.unanswered_requests[id][1],
                                  net.unanswered_requests[id][2]) = 0]_vars
    /\ []BroadcastOutcome

\* the part of C24 about what the caller gets
C24_Outcome == BroadcastOutcome

\* a rejection has reached the caller of a broadcast
C24_Rejected ==
    \E i \in BroadcastAnswers :
        ~broadcast_transaction(net.log[i][2], Txid(RawTx))[1]

(***************************************************************************)
(* SpecLocks: the worker, the thread of the GUICallbackProcessor and the   *)
(* two locks they share.  net.interface_lock and net.event_lock name the   *)
(* thread that holds the lock ("none" when it is free); net.at.worker is   *)
(* "run" between two handlers and "trigger_callback" while the worker is   *)
(* inside connection_down, holding the interface lock, about to publish    *)
(* its events; net.at.processor is "sleep", "callbacks" (inside the with   *)
(* event_lock block of run, calling the callbacks), "get_interfaces" (a    *)
(* callback has called Network.get_interfaces and waits for the interface  *)
(* lock) or "returned".  Two honest servers are connected at the start.    *)
(***************************************************************************)
\* the worker is between two handlers and can run one to its end
WorkerFree ==
    /\ net.at.worker = "run"
    /\ net.interface_lock = "none"
    /\ net.event_lock = "none"

\* the worker runs a handler to its end
WorkerRuns ==
    /\ WorkerFree
    /\ \/ ConnectionUp
       \/ MaintainSockets
       \/ MaintainSocketsRetry
       \/ Reply

\* the worker reads the empty response of a connection closed remotely and
\* enters connection_down, taking the interface lock
ConnectionLost ==
    /\ net.at.worker = "run"
    /\ net.interface_lock = "none"
    /\ \E o \in Live(net) :
          Step([Begin EXCEPT !.interface_lock = "worker",
                             !.at.worker = "trigger_callback",
                             !.at.closing = o])
    /\ UNCHANGED srv

\* connection_down publishes its events (trigger_callback takes the event
\* lock), finishes and gives the interface lock back
WorkerPublishes ==
    /\ net.at.worker = "trigger_callback"
    /\ net.event_lock = "none"
    /\ \E ord \in Orders :
        LET item == [kind |-> "closed", request |-> <<>>, response |-> <<>>]
            n == [Begin EXCEPT !.interface_lock = "none",
                               !.at.worker = "run",
                               !.at.closing = NoIface,
                               !.pending_events =
                                   @ \cup {"status", "network_updated"}]
        IN Step(Bind(n, LAMBDA nq :
                     process_responses(nq, net.at.closing, <<item>>, ord)))
    /\ UNCHANGED srv

\* GUICallbackProcessor.run takes the event lock and starts calling the
\* callbacks of the pending events
ProcessorRuns ==
    /\ net.at.processor = "sleep"
    /\ net.event_lock = "none"
    /\ net.pending_events # {}
    /\ Step([Begin EXCEPT !.event_lock = "processor",
                          !.at.processor = "callbacks"])
    /\ UNCHANGED srv

\* a callback calls Network.get_interfaces()
CallbackCalls ==
    /\ net.at.processor = "callbacks"
    /\ Step([Begin EXCEPT !.at.processor = "get_interfaces"])
    /\ UNCHANGED srv

\* get_interfaces takes the interface lock, reads the table and returns
CallbackReads ==
    /\ net.at.processor = "get_interfaces"
    /\ net.interface_lock = "none"
    /\ Step([Begin EXCEPT !.at.processor = "returned"])
    /\ UNCHANGED srv

\* the callbacks have returned: run forgets the events and leaves the lock
ProcessorSleeps ==
    /\ net.at.processor \in {"callbacks", "returned"}
    /\ Step([Begin EXCEPT !.event_lock = "none",
                          !.pending_events = {},
                          !.at.processor = "sleep"])
    /\ UNCHANGED srv

NextLocks ==
    \/ WorkerRuns
    \/ ConnectionLost
    \/ WorkerPublishes
    \/ ProcessorRuns
    \/ CallbackCalls
    \/ CallbackReads
    \/ ProcessorSleeps

SpecLocks == InitRouter /\ [][NextLocks]_vars

(***************************************************************************)
(* The locks.                                                              *)
(***************************************************************************)
\* the worker waits for the event lock while it holds the interface lock
WorkerWaits ==
    /\ net.at.worker = "trigger_callback"
    /\ net.interface_lock = "worker"
    /\ net.event_lock = "processor"

\* the callback the event lock is held for waits for the interface lock
CallbackWaits ==
    /\ net.at.processor = "get_interfaces"
    /\ net.event_lock = "processor"
    /\ net.interface_lock = "worker"

\* C25: in no reachable state is the worker blocked for ever on a lock:
\* the worker that publishes an event while it holds the interface lock
\* never waits for a callback that waits for the interface lock
C25_WorkerNeverBlocked == ~(WorkerWaits /\ CallbackWaits)

\* no thread holds a lock of the other while it waits
C25_LocksHeldInOrder ==
    /\ net.interface_lock \in {"none", "worker"}
    /\ net.event_lock \in {"none", "processor"}
    /\ net.at.processor = "sleep" => net.event_lock = "none"
    /\ net.at.worker = "run" => net.interface_lock = "none"

(***************************************************************************)
(* Who changes the sync state.                                             *)
(***************************************************************************)
\* the fields of an interface the header sync works on
SyncFields(i) ==
    <<i.blockchain, i.tip_header, i.tip, i.mode, i.request, i.good, i.bad,
      i.bad_header>>

\* the step leaves the chain map, the followed-chain selector, the
\* interface table, the active interface and the sync fields of every
\* interface as they were
SyncStateKept ==
    /\ net'.blockchains = net.blockchains
    /\ net'.blockchain_index = net.blockchain_index
    /\ net'.interfaces = net.interfaces
    /\ net'.interface = net.interface
    /\ \A o \in DOMAIN net.objs \cap DOMAIN net'.objs :
          SyncFields(net'.objs[o]) = SyncFields(net.objs[o])

\* the step is a call of follow_chain or set_parameters by the user's
\* thread, and not a step of the worker that ends in the same state
UserCall ==
    /\ FollowChain \/ SetParameters
    /\ ~(ConnectionUp \/ MaintainSockets \/ Reply \/ Notify)

\* C26: only the worker changes the chain map, the followed-chain
\* selector, the interface table, the active interface and the sync fields
\* of the interfaces: a call of an entry point by another thread leaves
\* them as they were
C26_OnlyWorkerChangesSync == [][UserCall => SyncStateKept]_vars

\* a call of send by a client thread only adds to the pending sends
C26_SendOnlyEnqueues ==
    [][Send => /\ SyncStateKept
               /\ net'.objs = net.objs
               /\ net'.unanswered_requests = net.unanswered_requests
               /\ Len(net'.pending_sends) = Len(net.pending_sends) + 1]_vars

(***************************************************************************)
(* A header nobody waits for.                                              *)
(***************************************************************************)
\* the heights interface o does not wait for
StaleHeights(o) == {h \in 0..srv.max : h # net.objs[o].request}

\* the worker reads from o a message that carries the header at height h
AfterHeader(o, h) ==
    LET item == [kind |-> "push", request |-> <<>>,
                 response |-> [method |-> "blockchain.block.header",
                               params |-> <<h>>,
                               result |-> <<ServerHeader(o[1], h)>>,
                               error |-> "none", src |-> <<o[1], None>>]]
    IN Bind(Begin, LAMBDA nq :
            process_responses(nq, o, <<item>>, SeqOf(Servers)))

\* n differs from the state only by the teardown of interface o through
\* connection_down: no chain, no marker of another server and no other
\* interface has changed
TornDownOnly(n, o) ==
    /\ n.crashed = ""
    /\ o[1] \notin DOMAIN n.interfaces
    /\ n.interface # o
    /\ o[1] \in n.disconnected_servers
    /\ n.objs[o].closed
    /\ DOMAIN n.blockchains = DOMAIN net.blockchains
    /\ \A k \in DOMAIN net.blockchains :
          /\ [n.blockchains[k] EXCEPT !.catch_up = NoServer]
                = [net.blockchains[k] EXCEPT !.catch_up = NoServer]
          /\ net.blockchains[k].catch_up # o[1]
                => n.blockchains[k].catch_up = net.blockchains[k].catch_up
    /\ \A p \in DOMAIN net.objs \ {o} : n.objs[p] = net.objs[p]
    /\ \A s \in DOMAIN net.interfaces \ {o[1]} :
          s \in DOMAIN n.interfaces /\ n.interfaces[s] = net.interfaces[s]

\* C27: in every reachable state where the worker runs, a single-header
\* message read from an interface at a height the interface does not wait
\* for (or while it waits for none) tears that interface down through
\* connection_down and changes no chain, no catch_up marker held by
\* another server and no other interface
C27_StaleHeaderTearsDown ==
    net.crashed = ""
    => \A o \in Live(net) :
          \A h \in StaleHeights(o) : TornDownOnly(AfterHeader(o, h), o)

\* an interface that waits for a header is torn down by a header at another
\* height while another server holds the catch_up marker of a chain and a
\* second interface is live
C27_Witness ==
    /\ net.crashed = ""
    /\ \E o \in Live(net) :
          /\ net.objs[o].request # None
          /\ \E k \in DOMAIN net.blockchains :
                net.blockchains[k].catch_up \notin {NoServer, o[1]}
          /\ Live(net) # {o}
          /\ \E h \in StaleHeights(o) :
                LET n == AfterHeader(o, h) IN
                /\ o[1] \notin DOMAIN n.interfaces
                /\ \E k \in DOMAIN n.blockchains :
                      n.blockchains[k].catch_up \notin {NoServer, o[1]}

(***************************************************************************)
(* A chunk nobody waits for.                                               *)
(***************************************************************************)
\* the start heights of the chunks a server sends
ChunkStarts == {0, 1, CHUNK_SIZE, CHUNK_SIZE + 1}

\* the chunk that starts at height start is misaligned or not outstanding
Unawaited(start) ==
    LET index == start \div CHUNK_SIZE IN
    index * CHUNK_SIZE # start \/ index \notin net.requested_chunks

\* the worker reads from o a message that carries the chunk of headers
\* that starts at height start
AfterChunk(o, start) ==
    LET item == [kind |-> "push", request |-> <<>>,
                 response |-> [method |-> "blockchain.block.headers",
                               params |-> <<start, CHUNK_SIZE>>,
                               result |-> <<ServerChunk(o[1], start,
                                                        CHUNK_SIZE)>>,
                               error |-> "none", src |-> <<o[1], None>>]]
    IN Bind(Begin, LAMBDA nq :
            process_responses(nq, o, <<item>>, SeqOf(Servers)))

\* n keeps the mode, the awaited request and the chain of interface o, the
\* outstanding chunks, every chain and the interface table of the state
ChunkIgnored(n, o) ==
    /\ n.crashed = ""
    /\ n.objs[o].mode = net.objs[o].mode
    /\ n.objs[o].request = net.objs[o].request
    /\ n.objs[o].blockchain = net.objs[o].blockchain
    /\ n.requested_chunks = net.requested_chunks
    /\ n.blockchains = net.blockchains
    /\ n.interfaces = net.interfaces
    /\ n.interface = net.interface

\* C28: in every reachable state where the worker runs, a chunk message
\* whose start height is not a multiple of CHUNK_SIZE, or whose index is
\* not in requested_chunks, leaves the mode, the awaited request and the
\* chain of the interface, requested_chunks, every chain's headers and
\* marker and the interface table unchanged
C28_UnawaitedChunkIgnored ==
    net.crashed = ""
    => \A o \in Live(net) :
          \A start \in ChunkStarts :
              Unawaited(start) => ChunkIgnored(AfterChunk(o, start), o)

\* chunk 0 is outstanding for an interface in catch_up: the chunk that
\* starts at height 1 and the chunk of index 1 are ignored, the chunk that
\* starts at height 0 is not
C28_Witness ==
    /\ net.crashed = ""
    /\ net.requested_chunks = {0}
    /\ \E o \in Live(net) :
          /\ net.objs[o].mode = "catch_up"
          /\ Unawaited(1) /\ ChunkIgnored(AfterChunk(o, 1), o)
          /\ Unawaited(CHUNK_SIZE)
          /\ ChunkIgnored(AfterChunk(o, CHUNK_SIZE), o)
          /\ ~Unawaited(0)
          /\ AfterChunk(o, 0).requested_chunks = {}

(***************************************************************************)
(* SpecBackward: one server, s1, on a branch the store does not follow;    *)
(* s2 is down.  x is stored up to BackStored; s1 serves y, which leaves x  *)
(* at height 1, 5 or 8, or z, which shares no header with x.  s1's tip is  *)
(* at BackTip and s1 finds new blocks up to BackTop.  The worker keeps     *)
(* running its loop and s1 keeps answering.                                *)
(***************************************************************************)
BackStored == 8
BackTip == 9
BackTop == 11

InitBackward ==
    \E br \in {"y", "z"}, f \in {1, 5, BackStored} :
        /\ br = "z" => f = 1
        /\ srv = [World(Single(br), f, BackTip, BackTop)
                    EXCEPT !.stored = BackStored]
        /\ net = Started(BackStored, TRUE, Servers)

NextBackward ==
    \/ ConnectionUp
    \/ ConnectionRefused
    \/ MaintainSockets
    \/ Reply
    \/ Notify

SpecBackward ==
    /\ InitBackward
    /\ [][NextBackward]_vars
    /\ WF_vars(ConnectionUp)
    /\ WF_vars(MaintainSockets)
    /\ WF_vars(Reply)

\* the live interfaces that search backward for a header of a known chain
Probing(n) ==
    {o \in Live(n) : n.objs[o].mode = "backward" /\ n.objs[o].request # None}

\* no chain holds the header and no chain's tip is its predecessor
Unknown(header) ==
    check_header(net, header) = NoChain /\ can_connect(net, header) = NoChain

\* the reply interface o waits for matches no known chain
ProbeMisses(o) ==
    /\ o \in Probing(net)
    /\ Unknown(ServerHeader(o[1], net.objs[o].request))

\* what the miss at the awaited height h leaves: the interface torn down
\* when h = 0, else bad = h and a request at max(0, tip - 2 * (tip - h)),
\* which is below h
ProbedBack(n, o) ==
    LET h == net.objs[o].request
        tip == net.objs[o].tip
    IN /\ n.crashed = ""
       /\ IF h = 0
          THEN /\ o[1] \notin DOMAIN n.interfaces
               /\ n.objs[o].closed
               /\ o[1] \in n.disconnected_servers
          ELSE /\ o \in Probing(n)
               /\ n.objs[o].bad = h
               /\ n.objs[o].request = Max({0, tip - 2 * (tip - h)})
               /\ n.objs[o].request < h

\* a step in which interface o, in backward mode before and after it,
\* queues its next probe
Probes(o) ==
    /\ o \in Probing(net) /\ o \in Probing(net')
    /\ net'.message_id > net.message_id

C29_AtGenesis ==
    \E o \in Probing(net) :
        /\ net.objs[o].request = 0
        /\ ProbeMisses(o)
        /\ o[1] \notin DOMAIN AfterHeader(o, 0).interfaces

(***************************************************************************)
(* The end of the bisection at a fork point that is already recorded.      *)
(***************************************************************************)
\* interface.good, interface.bad and interface.bad_header once on_get_header
\* has read, in binary mode, the reply interface o waits for
Bisected(o) ==
    LET i == net.objs[o]
        header == ServerHeader(o[1], i.request)
    IN IF check_header(net, header) # NoChain
       THEN [good |-> i.request, bad |-> i.bad, bad_header |-> i.bad_header,
             blockchain |-> check_header(net, header)]
       ELSE [good |-> i.good, bad |-> i.request, bad_header |-> header,
             blockchain |-> i.blockchain]

\* the reply interface o waits for ends the bisection at a recorded fork
\* point whose chain does not hold the header at bad and whose parent
\* validates the reply
ReorgCase(o) ==
    /\ o \in Live(net)
    /\ net.objs[o].mode = "binary"
    /\ net.objs[o].request # None
    /\ LET b == Bisected(o)
           header == ServerHeader(o[1], net.objs[o].request)
       IN /\ b.bad = b.good + 1
          /\ b.blockchain # NoChain
          /\ Chain_can_connect(net.blockchains, b.blockchain, b.bad_header,
                               FALSE)
          /\ b.bad \in DOMAIN net.blockchains
          /\ ~Chain_check_header(net.blockchains, b.bad, b.bad_header)
          /\ Chain_check_header(net.blockchains,
                                net.blockchains[b.bad].parent, header)

\* C30: in every reachable state where the reply an interface waits for
\* ends the bisection at a recorded fork point whose chain does not hold
\* the header at bad and whose parent validates the reply, reading the
\* reply makes the parent the interface's chain, puts the interface in
\* mode catch_up holding the parent's marker and requests the header at
\* bad + 1
C30_ReorgResumesCatchUp ==
    net.crashed = ""
    => \A o \in Live(net) :
          ReorgCase(o)
          => LET n == AfterHeader(o, net.objs[o].request)
                 parent == net.blockchains[Bisected(o).bad].parent
             IN /\ n.crashed = ""
                /\ n.objs[o].blockchain = parent
                /\ n.objs[o].mode = "catch_up"
                /\ n.blockchains[parent].catch_up = o[1]
                /\ n.objs[o].request = Bisected(o).bad + 1

\* in that case the interface takes the parent as its chain, stays in
\* binary mode, takes no marker and asks for the header at bad again
C30_ReorgAsksBadAgain ==
    net.crashed = ""
    => \A o \in Live(net) :
          ReorgCase(o)
          => LET n == AfterHeader(o, net.objs[o].request)
                 parent == net.blockchains[Bisected(o).bad].parent
             IN /\ n.crashed = ""
                /\ n.objs[o].blockchain = parent
                /\ n.objs[o].mode = "binary"
                /\ \A k \in DOMAIN net.blockchains :
                      n.blockchains[k] = net.blockchains[k]
                /\ n.objs[o].request = Bisected(o).bad

\* the case happens and the reply moves the interface to the parent chain
C30_Reorg ==
    /\ net.crashed = ""
    /\ \E o \in Live(net) :
          /\ ReorgCase(o)
          /\ net.objs[o].blockchain # NoChain
          /\ AfterHeader(o, net.objs[o].request).objs[o].blockchain
                = net.blockchains[Bisected(o).bad].parent

(***************************************************************************)
(* A header reply read in catch_up mode.                                   *)
(***************************************************************************)
\* the worker reads from o a message that carries header
AfterHeaderOf(o, header) ==
    LET item == [kind |-> "push", request |-> <<>>,
                 response |-> [method |-> "blockchain.block.header",
                               params |-> <<header[1]>>,
                               result |-> <<header>>,
                               error |-> "none", src |-> <<o[1], None>>]]
    IN Bind(Begin, LAMBDA nq :
            process_responses(nq, o, <<item>>, SeqOf(Servers)))

\* the headers a server may send at the height interface o waits for
HeadersAwaited(o) == {<<net.objs[o].request, id>> : id \in Branches}

\* interface o is in catch_up and waits for a header
InCatchUp(o) ==
    /\ o \in Live(net)
    /\ net.objs[o].mode = "catch_up"
    /\ net.objs[o].request # None
    /\ net.objs[o].blockchain # NoChain

\* header extends the chain of interface o by one
Connects(o, header) ==
    Chain_can_connect(net.blockchains, net.objs[o].blockchain, header, TRUE)

\* the state once the chain of o holds header, its marker is released and
\* switch_lagging_interface has run
LaggingChecked(o, header) ==
    LET k == net.objs[o].blockchain IN
    Bind(save_header(Begin, k, header), LAMBDA n1 :
         Bind([n1 EXCEPT !.blockchains[k].catch_up = NoServer], LAMBDA n2 :
              switch_lagging_interface(n2, SeqOf(Servers))))

\* C31 (first half): the effect of a connecting header at or above the
\* announced tip
CatchUpDone(n, o, header) ==
    LET k == net.objs[o].blockchain IN
    /\ n.crashed = ""
    /\ k \in DOMAIN n.blockchains => n.blockchains[k].catch_up = NoServer
    /\ n.objs[o].mode = "default"
    /\ n.objs[o].request = None
    /\ n = [LaggingChecked(o, header) EXCEPT !.objs[o].mode = "default",
                                             !.objs[o].request = None]

\* C31 (second half): the effect of a header that does not connect
WentBack(n, o, header) ==
    LET h == header[1] IN
    /\ n.crashed = ""
    /\ IF h = 0
       THEN /\ o[1] \notin DOMAIN n.interfaces
            /\ n.objs[o].closed
       ELSE /\ o \in Live(n)
            /\ n.objs[o].mode = "backward"
            /\ n.objs[o].bad = h
            /\ n.objs[o].bad_header = header
            /\ n.objs[o].request = h - 1

\* C31: in catch_up mode, a header at the awaited height that connects and
\* lies at the announced tip releases the chain's marker, leaves the
\* interface in default mode awaiting nothing and runs the lagging check;
\* one that does not connect puts the interface in backward mode with
\* bad = h and a request at h - 1, or tears it down when h = 0
C31_CatchUpEnds ==
    net.crashed = ""
    => \A o \in Live(net) :
          InCatchUp(o)
          => \A header \in HeadersAwaited(o) :
                LET n == AfterHeaderOf(o, header) IN
                /\ (Connects(o, header) /\ header[1] >= net.objs[o].tip)
                      => CatchUpDone(n, o, header)
                /\ ~Connects(o, header) => WentBack(n, o, header)

\* in catch_up mode, a header at the awaited height that connects and
\* lies at the announced tip releases the chain's marker and runs the
\* lagging check; when the check completes the interface is left in
\* default mode awaiting nothing, and when the check raises the handler
\* stops there, the interface still in catch_up with its request.  A
\* header that does not connect puts the interface in backward mode with
\* bad = h and a request at h - 1, or tears it down when h = 0
C31_CatchUpEndsUnlessCheckRaises ==
    net.crashed = ""
    => \A o \in Live(net) :
          InCatchUp(o)
          => \A header \in HeadersAwaited(o) :
                LET n == AfterHeaderOf(o, header)
                    checked == LaggingChecked(o, header)
                IN
                /\ (Connects(o, header) /\ header[1] >= net.objs[o].tip)
                      => IF checked.crashed = ""
                         THEN CatchUpDone(n, o, header)
                         ELSE /\ n = checked
                              /\ n.objs[o].mode = "catch_up"
                              /\ n.objs[o].request = net.objs[o].request
                /\ ~Connects(o, header) => WentBack(n, o, header)

\* a catch-up reaches the announced tip and the lagging check raises
C31_CheckRaises ==
    /\ net.crashed = ""
    /\ \E o \in Live(net) :
          /\ InCatchUp(o)
          /\ LET header == ServerHeader(o[1], net.objs[o].request) IN
             /\ Connects(o, header) /\ header[1] = net.objs[o].tip
             /\ AfterHeaderOf(o, header).crashed # ""

\* a catch-up reaches the announced tip while another interface is live
C31_Witness ==
    /\ net.crashed = ""
    /\ \E o \in Live(net) :
          /\ InCatchUp(o)
          /\ Live(net) # {o}
          /\ LET header == ServerHeader(o[1], net.objs[o].request) IN
             /\ Connects(o, header) /\ header[1] = net.objs[o].tip
             /\ CatchUpDone(AfterHeaderOf(o, header), o, header)

\* a catch-up reads a header above height 0 that does not connect
C31_WentBack ==
    /\ net.crashed = ""
    /\ \E o \in Live(net) :
          /\ InCatchUp(o)
          /\ net.objs[o].request > 0
          /\ LET header == ServerHeader(o[1], net.objs[o].request) IN
             /\ ~Connects(o, header)
             /\ AfterHeaderOf(o, header).objs[o].mode = "backward"

\* a catch-up reads a header at height 0 that does not connect
C31_AtGenesis ==
    /\ net.crashed = ""
    /\ \E o \in Live(net) :
          /\ InCatchUp(o)
          /\ net.objs[o].request = 0
          /\ \E header \in HeadersAwaited(o) :
                /\ ~Connects(o, header)
                /\ o[1] \notin DOMAIN AfterHeaderOf(o, header).interfaces

(***************************************************************************)
(* SpecPool: the worker keeps its pool of connections.  s1 serves x; s2    *)
(* serves x or is down.  With the option oneserver the target count        *)
(* num_server is 0 and start_network connects to the default server only.  *)
(* The user may select the other server.                                   *)
(***************************************************************************)
InitPool ==
    \E oneserver \in BOOLEAN, br \in {"x", "down"} :
        /\ srv = World([s \in Servers |-> IF s = "s1" THEN "x" ELSE br],
                       ForkHeight, 1, 1)
        /\ net = start_network(
                    [InitNet([k \in {0} |-> XChain(1)], <<0>>, "s1", TRUE)
                        EXCEPT !.num_server = IF oneserver THEN 0 ELSE @],
                    IF oneserver THEN {} ELSE Servers)

NextPool ==
    \/ ConnectionUp
    \/ ConnectionRefused
    \/ MaintainSockets
    \/ MaintainSocketsRetry
    \/ Reply
    \/ SwitchToInterface

SpecPool == InitPool /\ [][NextPool]_vars

\* n starts, compared with the state, at most one connection attempt, and
\* that to a server that is neither connected nor connecting nor in the
\* disconnected set
StartsOnlyFresh(n) ==
    /\ n.spawned <= net.spawned + 1
    /\ n.spawned > net.spawned
          => \E s \in Servers :
                /\ n.connecting = net.connecting \cup {s}
                /\ s \notin net.connecting
                /\ s \notin DOMAIN net.interfaces
                /\ s \notin net.disconnected_servers

\* the servers other than the default server to which the step starts a
\* connection attempt
PoolAttempts ==
    {s \in Servers : /\ s \in net'.conn_threads
                     /\ s \notin net.conn_threads
                     /\ s # net'.default_server}

\* a step of the periodic maintenance: the worker empties socket_queue or
\* finds it empty and changes the tables
Maintains == MaintainSockets \/ MaintainSocketsRetry

\* C32: start_random_interface, run in any reachable state, starts no
\* connection attempt to a server that is connected, connecting or in the
\* disconnected set; and a step of the periodic maintenance starts an
\* attempt to a server other than the default server only when the
\* target count is above the number of servers that were connected or
\* connecting
C32_PoolFilling ==
    /\ [](net.crashed = ""
          => \A ord \in Orders :
                StartsOnlyFresh(start_random_interface(Begin, ord)))
    /\ [][\A s \in PoolAttempts :
             Maintains
             => /\ net.num_server > 0
                /\ Cardinality((DOMAIN net'.interfaces \cup net'.connecting)
                                  \ {s})
                      < net.num_server]_vars

\* the pool is filled: one server is connected, the other is not excluded,
\* and start_random_interface starts the attempt to it
C32_Witness ==
    /\ net.crashed = ""
    /\ net.num_server > 0
    /\ DOMAIN net.interfaces # {}
    /\ net.connecting = {}
    /\ \E ord \in Orders :
          start_random_interface(Begin, ord).spawned = net.spawned + 1

\* the only other server is in the disconnected set and nothing is started
C32_Excluded ==
    /\ net.crashed = ""
    /\ net.disconnected_servers # {}
    /\ \A ord \in Orders :
          start_random_interface(Begin, ord).spawned = net.spawned

\* with oneserver a server other than the default server is not connected
\* and not excluded, and the maintenance has run
C32_OneServer ==
    /\ net.num_server = 0
    /\ net.interface # NoIface
    /\ Servers \ (DOMAIN net.interfaces \cup net.connecting
                     \cup net.disconnected_servers) # {}

(***************************************************************************)
(* A tip notification outside default mode.                                *)
(***************************************************************************)
\* the worker reads from o the notification of the tip header
AfterAnnounced(o, header) ==
    LET item == [kind |-> "push", request |-> <<>>,
                 response |-> [method |-> "blockchain.headers.subscribe",
                               params |-> <<header>>, result |-> <<>>,
                               error |-> "none", src |-> <<o[1], None>>]]
    IN Bind(Begin, LAMBDA nq :
            process_responses(nq, o, <<item>>, SeqOf(Servers)))

\* the tip headers a server may announce
Tips == {<<h, id>> : h \in 0..srv.max, id \in {"x", "y", "z"}}

\* n differs from the state in no field of the search of interface o, in
\* no chain and no marker, and has the same active interface and table
NoSearchStep(n, o) ==
    /\ n.crashed = ""
    /\ n.objs[o].mode = net.objs[o].mode
    /\ n.objs[o].request = net.objs[o].request
    /\ n.objs[o].good = net.objs[o].good
    /\ n.objs[o].bad = net.objs[o].bad
    /\ n.objs[o].bad_header = net.objs[o].bad_header
    /\ n.objs[o].blockchain = net.objs[o].blockchain
    /\ n.objs[o].unanswered = net.objs[o].unanswered
    /\ n.blockchains = net.blockchains
    /\ n.chain_order = net.chain_order
    /\ n.interface = net.interface
    /\ n.interfaces = net.interfaces
    /\ n.requested_chunks = net.requested_chunks

\* C33: in every reachable state where the worker runs, a tip notification
\* read from an interface whose mode is not default, or one that announces
\* height 0, changes at most tip and tip_header of the interface: mode,
\* request, good, bad, the interface's chain, the chains with their
\* markers and the active interface stay as they are
C33_TipOutsideDefault ==
    net.crashed = ""
    => \A o \in Live(net) :
          \A header \in Tips :
              (net.objs[o].mode # "default" \/ header[1] = 0)
              => NoSearchStep(AfterAnnounced(o, header), o)

\* an interface in the middle of a search is told a new tip on a branch its
\* store does not hold: the tip is recorded and nothing else happens, while
\* the same notification in default mode would start a search
C33_Witness ==
    /\ net.crashed = ""
    /\ \E o \in Live(net) :
          /\ net.objs[o].mode \in {"backward", "binary", "catch_up"}
          /\ net.objs[o].request # None
          /\ \E header \in Tips :
                /\ header[1] > net.objs[o].tip
                /\ check_header(net, header) = NoChain
                /\ can_connect(net, header) = NoChain
                /\ AfterAnnounced(o, header).objs[o].tip = header[1]
                /\ AfterAnnounced(o, header).objs[o].tip_header = header
                /\ NoSearchStep(AfterAnnounced(o, header), o)

(***************************************************************************)
(* The awaited header and the mode.                                        *)
(***************************************************************************)
\* C34: in every reachable state, a live interface in default mode waits
\* for no header (request is None), and a live interface whose request is
\* set is in backward, binary or catch_up mode
C34_RequestOnlyWhileSearching ==
    \A o \in Live(net) :
        /\ net.objs[o].mode = "default" => net.objs[o].request = None
        /\ net.objs[o].request # None
              => net.objs[o].mode \in {"backward", "binary", "catch_up"}

\* as long as no chunk has been asked for, the two go together
C34_HoldsBeforeChunks ==
    [][net.requested_chunks = {} /\ net'.requested_chunks = {}
          /\ (\A o \in Live(net) : net.objs[o].mode = "default"
                                      => net.objs[o].request = None)
       => \A o \in Live(net') :
              net'.objs[o].mode = "default" => net'.objs[o].request = None]_vars

\* a catch-up has ended with a chunk: the interface is in default mode, the
\* chain has reached the tip and the request is still set
C34_AfterChunks ==
    \E o \in Live(net) :
        /\ net.objs[o].mode = "default"
        /\ net.objs[o].request # None
        /\ net.objs[o].blockchain # NoChain
        /\ Chain_height(net.blockchains[net.objs[o].blockchain])
              >= net.objs[o].tip

(***************************************************************************)
(* Who holds a catch_up marker.                                            *)
(***************************************************************************)
\* the server named by the marker of chain k is connected and its
\* interface catches chain k up
MarkerHeldByCatchUp(k) ==
    LET s == net.blockchains[k].catch_up IN
    s # NoServer
    => /\ s \in DOMAIN net.interfaces
       /\ net.objs[net.interfaces[s]].mode = "catch_up"
       /\ net.objs[net.interfaces[s]].blockchain = k

\* an interface in catch_up mode is named by the marker of its chain
CatchUpHoldsMarker(o) ==
    net.objs[o].mode = "catch_up"
    => /\ net.objs[o].blockchain \in DOMAIN net.blockchains
       /\ net.blockchains[net.objs[o].blockchain].catch_up = o[1]

\* C35: in every reachable state where the worker runs, a chain's catch_up
\* marker names a server of the live interface table whose interface is in
\* catch_up mode on that chain, and every live interface in catch_up mode
\* is named by its chain's marker
C35_MarkerOwnership ==
    net.crashed = ""
    => /\ \A k \in DOMAIN net.blockchains : MarkerHeldByCatchUp(k)
       /\ \A o \in Live(net) : CatchUpHoldsMarker(o)

\* the converse alone: a live interface in catch_up mode is named by its
\* chain's marker
C35_CatchUpHoldsMarker ==
    net.crashed = "" => \A o \in Live(net) : CatchUpHoldsMarker(o)

\* a marker names a connected server whose search has gone back to
\* backward mode
C35_MarkerInBackward ==
    \E k \in DOMAIN net.blockchains :
        LET s == net.blockchains[k].catch_up IN
        /\ s \in DOMAIN net.interfaces
        /\ net.objs[net.interfaces[s]].mode = "backward"

(***************************************************************************)
(* The active interface.                                                   *)
(***************************************************************************)
\* the active interface, when set, is the table's entry for its server and
\* that server is default_server
ActiveIsDefault(n) ==
    n.interface # NoIface
    => LET server == n.objs[n.interface].server IN
       /\ server \in DOMAIN n.interfaces
       /\ n.interfaces[server] = n.interface
       /\ server = n.default_server

(***************************************************************************)
(* SpecRestart: two servers on x, s2 possibly down.  The user selects the  *)
(* other server or changes the proxy, which restarts the network on the    *)
(* server given.                                                           *)
(***************************************************************************)
Restart ==
    /\ \E server \in Servers, auto_connect \in BOOLEAN,
          picked \in SUBSET Servers :
          Step(set_parameters_restart(Begin, server, auto_connect, picked))
    /\ UNCHANGED srv

InitRestart ==
    \E br \in {"x", "down"}, auto_connect \in BOOLEAN :
        /\ srv = World([s \in Servers |-> IF s = "s1" THEN "x" ELSE br],
                       ForkHeight, 1, 1)
        /\ net = Started(1, auto_connect, Servers)

NextRestart ==
    \/ ConnectionUp
    \/ ConnectionRefused
    \/ MaintainSockets
    \/ Reply
    \/ SwitchToInterface
    \/ Restart

SpecRestart == InitRestart /\ [][NextRestart]_vars

\* the assertions of stop_network, start_network and send_subscriptions
NetworkAssertions ==
    {"stop_network: assert self.interface is None",
     "stop_network: assert not self.interfaces",
     "start_network: assert not self.interface and not self.interfaces",
     "start_network: assert not self.connecting and self.socket_queue.empty()",
     "send_subscriptions: assert self.interface"}

\* C36: in every reachable state the active interface, when set, is the
\* entry of the interface table under its own server and that server is
\* default_server; no assertion of stop_network, start_network or
\* send_subscriptions has failed, and stop_network run in that state
\* closes everything and passes its assertions
C36_ActiveIsDefault ==
    /\ ActiveIsDefault(net)
    /\ net.crashed \notin NetworkAssertions
    /\ net.crashed = ""
          => LET n == stop_network(Begin) IN
             /\ n.crashed = ""
             /\ n.interface = NoIface
             /\ DOMAIN n.interfaces = {}

\* after a restart of the network s2 is the default server and the active
\* interface, with s1 connected next to it, and stop_network closes both
C36_Witness ==
    /\ net.crashed = ""
    /\ net.default_server = "s2"
    /\ net.interface # NoIface
    /\ net.objs[net.interface].server = "s2"
    /\ "s1" \in DOMAIN net.interfaces
    /\ net.spawned >= 4
    /\ stop_network(Begin).interface = NoIface


(***************************************************************************)
(* The fate of a client request.                                           *)
(***************************************************************************)
\* the entry of id `id` leaves the table in this step
Leaves(id) ==
    /\ id \in DOMAIN net.unanswered_requests
    /\ id \notin DOMAIN net'.unanswered_requests

\* the callback of entry `e` is called with a reply in this step
CalledBack(e) == \E i \in DOMAIN net'.log : net'.log[i][1] = e[3]

\* entry `e` is in the table again after this step under an id that was
\* not handed out before it
Requeued(e) ==
    \E id \in DOMAIN net'.unanswered_requests :
        /\ id >= net.message_id
        /\ net'.unanswered_requests[id] = e

\* C37: in every step, an entry that leaves the unanswered-request table
\* has its callback called with a reply in that step, or is in the table
\* again under a fresh id; and a step that changes the active interface to
\* a connected one leaves every entry of the table in it under a fresh id
C37_NoRequestLost ==
    /\ [][\A id \in DOMAIN net.unanswered_requests :
            Leaves(id) => \/ CalledBack(net.unanswered_requests[id])
                          \/ Requeued(net.unanswered_requests[id])]_vars
    /\ [][(net'.interface # net.interface /\ net'.interface # NoIface)
            => \A id \in DOMAIN net.unanswered_requests :
                  Requeued(net.unanswered_requests[id])]_vars

\* the second half alone: a step that changes the active interface to a
\* connected one leaves every entry of the table in it under a fresh id
C37_SwitchRequeues ==
    [][(net'.interface # net.interface /\ net'.interface # NoIface)
        => \A id \in DOMAIN net.unanswered_requests :
              Requeued(net.unanswered_requests[id])]_vars

\* a client request is unanswered while no interface is the active one and
\* the interface that carries it is still in the table
C37_Orphaned ==
    /\ net.interface = NoIface
    /\ \E o \in Live(net) :
          \E i \in DOMAIN net.objs[o].unanswered :
              net.objs[o].unanswered[i][3] \in DOMAIN net.unanswered_requests


(***************************************************************************)
(* The set of outstanding chunks.                                          *)
(***************************************************************************)
\* interface `o` has the request for chunk `index` in flight
ChunkInFlight(n, o, index) ==
    \E j \in DOMAIN n.objs[o].unanswered :
        /\ n.objs[o].unanswered[j][1] = "blockchain.block.headers"
        /\ n.objs[o].unanswered[j][2] = <<index * CHUNK_SIZE, CHUNK_SIZE>>

\* interface `o` is in catch_up and has no request in flight
Starved(n, o) ==
    /\ n.objs[o].mode = "catch_up"
    /\ n.objs[o].unanswered = <<>>

(***************************************************************************)
(* SpecChunks: the servers and the store of SpecScenario; besides          *)
(* connecting and answering, the worker finds a connection timed out       *)
(* (maintain_sockets -> connection_down) or a retry interval passed, and   *)
(* then retries the servers it has disconnected from.                      *)
(***************************************************************************)
NextChunks ==
    \/ ConnectionUp
    \/ ConnectionRefused
    \/ MaintainSockets
    \/ MaintainSocketsLate
    \/ Reply

SpecChunks == InitScenario /\ [][NextChunks]_vars

\* C38: in every reachable state where the worker runs, every index of
\* requested_chunks is the index of a chunk request in flight on an
\* interface of the interface table, and no interface of the table is in
\* catch_up without a request in flight while an index is outstanding
C38_OutstandingInFlight ==
    net.crashed = ""
    => /\ \A index \in net.requested_chunks :
             \E o \in Live(net) : ChunkInFlight(net, o, index)
       /\ \A o \in Live(net) :
             Starved(net, o) => net.requested_chunks = {}

\* the first half of C38 for an index that was added: in every step that
\* adds an index to requested_chunks, the request for that chunk is in
\* flight on an interface of the table after the step
C38_AddedWhenQueued ==
    [][\A index \in net'.requested_chunks \ net.requested_chunks :
          \E o \in Live(net') : ChunkInFlight(net', o, index)]_vars

\* a chunk is outstanding and its request is in flight
C38_Outstanding ==
    \E index \in net.requested_chunks :
        \E o \in Live(net) : ChunkInFlight(net, o, index)


\* the worker runs, an interface of the table is in catch_up with no
\* request in flight, and the chunk it needs next is in requested_chunks
\* with no request for it in flight anywhere
C38_StarvedByStaleIndex ==
    /\ net.crashed = ""
    /\ \E o \in Live(net), index \in net.requested_chunks :
          /\ Starved(net, o)
          /\ \A p \in Live(net) : ~ChunkInFlight(net, p, index)


(***************************************************************************)
(* The end of a bisection on a chain that is not higher than good.         *)
(***************************************************************************)
\* interface `o` as the binary branch leaves it after the reply `header`,
\* before the fork point is looked at
Probed(o, header) ==
    LET chain == check_header(net, header) IN
    IF chain # NoChain
    THEN [net.objs[o] EXCEPT !.good = header[1], !.blockchain = chain]
    ELSE [net.objs[o] EXCEPT !.bad = header[1], !.bad_header = header]

\* the reply `header` ends the bisection of `o` at a fork point where no
\* chain is recorded
EndsUnrecorded(o, header) ==
    LET i == Probed(o, header) IN
    /\ net.crashed = ""
    /\ net.objs[o].mode = "binary"
    /\ net.objs[o].request # None
    /\ i.bad = i.good + 1
    /\ Chain_can_connect(net.blockchains, i.blockchain, i.bad_header, FALSE)
    /\ i.bad \notin DOMAIN net.blockchains

\* C39: in every reachable state, for every interface and every header
\* that can answer its request: if the reply ends the bisection at a fork
\* point where no chain is recorded, the interface's chain has height at
\* least good, and handling the reply does not fail the assertion
\* bh == interface.good; and the assertion has not failed
C39_AssertionHolds ==
    /\ net.crashed # "on_get_header: assert bh == interface.good"
    /\ \A o \in Live(net) : \A header \in HeadersAwaited(o) :
          EndsUnrecorded(o, header)
          => /\ Chain_height(net.blockchains[Probed(o, header).blockchain])
                   >= Probed(o, header).good
             /\ AfterHeaderOf(o, header).crashed
                   # "on_get_header: assert bh == interface.good"

\* a bisection is about to end in the not-higher case, on a chain whose
\* height equals good, and handling the reply leaves the worker running,
\* while another interface is in catch_up and holds the marker of the
\* chain it extends
C39_Witness ==
    \E o, p \in Live(net) :
        /\ p # o
        /\ net.objs[p].mode = "catch_up"
        /\ net.blockchains[net.objs[p].blockchain].catch_up = p[1]
        /\ \E header \in HeadersAwaited(o) :
              /\ EndsUnrecorded(o, header)
              /\ Chain_height(net.blockchains[Probed(o, header).blockchain])
                    = Probed(o, header).good
              /\ AfterHeaderOf(o, header).crashed = ""


(***************************************************************************)
(* The request timeout.                                                    *)
(*                                                                         *)
(* SpecTimeout: the servers and the store of SpecScenario, but s1 goes     *)
(* silent: it answers an interface only as long as the interface awaits    *)
(* no header.  The worker keeps running maintain_requests() (fairness),    *)
(* and each time it finds the request of one interface timed out.          *)
(***************************************************************************)
\* the worker reads the answers of a server to an interface that awaits
\* no header
ReplyBeforeSilence ==
    /\ \E o \in Live(net), ord \in Orders :
        /\ net.objs[o].unanswered # <<>>
        /\ net.objs[o].request = None
        /\ Step(Answered(Begin, o, ord))
    /\ UNCHANGED srv

NextTimeout ==
    \/ ConnectionUp
    \/ ConnectionRefused
    \/ MaintainSockets
    \/ MaintainSocketsRetry
    \/ ReplyBeforeSilence
    \/ MaintainRequests

SpecTimeout ==
    /\ InitScenario
    /\ [][NextTimeout]_vars
    /\ WF_vars(MaintainRequests)

\* every interface the worker can create
Interfaces == {<<s, g>> : s \in Servers, g \in 0..MaxSpawn}

\* interface `o` is in the interface table and awaits a header
AwaitsHeader(o) ==
    /\ net.crashed = ""
    /\ o \in Live(net)
    /\ net.objs[o].request # None

\* interface `o` is out of the interface table and its server holds no
\* catch_up marker
TornDownAndReleased(o) ==
    /\ o \notin Live(net)
    /\ \A k \in DOMAIN net.blockchains : net.blockchains[k].catch_up # o[1]

\* C40: an interface that awaits a header, at whatever height, from a
\* server that does not answer is eventually out of the interface table
\* with no catch_up marker left to its server
C40_SilentServerTimesOut ==
    \A o \in Interfaces : AwaitsHeader(o) ~> TornDownAndReleased(o)

\* C40 for the heights above 0: an interface that awaits a header at a
\* height above 0 from a server that does not answer is eventually out of
\* the interface table with no catch_up marker left to its server
C40_TimesOutAboveGenesis ==
    \A o \in Interfaces :
        (AwaitsHeader(o) /\ net.objs[o].request # 0) ~> TornDownAndReleased(o)

\* an interface awaits the header at height 0 and holds the catch_up
\* marker of its chain
C40_AwaitsGenesis ==
    \E o \in Live(net) :
        /\ AwaitsHeader(o)
        /\ net.objs[o].request = 0
        /\ net.blockchains[net.objs[o].blockchain].catch_up = o[1]

\* the step the claim is about: in every reachable state, for every
\* interface that awaits a header, maintain_requests() run when its
\* request has timed out takes it out of the interface table
C40_TimedOutIsTornDown ==
    \A o \in Live(net) :
        AwaitsHeader(o)
        => o \notin Live(Bind(Begin, LAMBDA nq : maintain_requests(nq, {o})))

==============================================================================
